---- MODULE Spec2Model ----
(***************************************************************************)
(* A model of the API mock server generator's core:                        *)
(*   - DataGenerator (packages/core/src/openapi-parser.ts): generation of  *)
(*     a value from a JSON Schema node, with $ref resolution;              *)
(*   - TemplateEngine (packages/core/src/swagger-client.d.ts): the         *)
(*     {{name:args}} placeholder interpreter.                              *)
(*                                                                         *)
(* Random draws of faker.js are nondeterministic choices: an operator that *)
(* models a function with random draws returns the SET of its outcomes,    *)
(* and an action picks one of them.  A thrown exception is the outcome     *)
(* Throw(e).                                                               *)
(***************************************************************************)
EXTENDS Integers, Sequences, FiniteSets, TLC

VARIABLES
  gMode,      \* DataGenerator: which method the run exercises: "generate" | "resolveRef" | "idle"
  gSpec,      \* DataGenerator.spec: the root document, or Undefined
  gSchema,    \* the schema node handed to generateFromSchema
  gVisited,   \* the visitedRefs Set threaded through the call tree
  gVisited0,  \* the content of that Set when the top-level call started
  gPhase,     \* "ready" before the top-level call, "done" after it
  gResult,    \* the outcome of the top-level call: a value or Throw(e)
  rStack,     \* resolveRef: the active frames, innermost first
  rRet,       \* resolveRef: the value returned by the frame that ended last, or NoReturn
  tInput,     \* TemplateEngine: the data handed to process, or Undefined
  tPhase,     \* TemplateEngine: "ready" before the call, "done" after it, "idle"
  tResult,    \* TemplateEngine: the outcome of process: a value or Throw(e)
  sPhase,     \* MockServer: "constructed", "running" after registerEndpoints, "idle"
  sConfig,    \* config.endpoints: the Map from endpoint keys to EndpointConfig objects
  sRoutes,    \* the routes of the Express app: per key, the config object the handler
              \* closed over and whether the route goes through the request queue
  sQueue,     \* RequestQueue.queue: the waiting requests, oldest first
  sProcessing,\* RequestQueue.processing
  sActive,    \* the requests whose handler runs
  sSaved,     \* the keys for which PUT /api/endpoints/:method/:path answered success
  sArrived,   \* how many requests have arrived
  sLast,      \* the HTTP response sent last, or NoResponse
  hMode,      \* object store: which method the run exercises: "generate" | "process" | "idle"
  hHeap,      \* the objects and arrays of the JavaScript heap, by address
  hHeap0,     \* the heap when the top-level call started: the input of the caller
  hRoot,      \* the argument of the top-level call: a primitive or the address of its object
  hPhase,     \* "ready" before the top-level call, "done" after it
  hResult,    \* what the top-level call returned: a primitive, an address or Throw(e)
  qQueue,     \* RequestQueue.queue of a queue on its own: the waiting requests, oldest first
  qProcessing,\* RequestQueue.processing of that queue
  qArrived,   \* how many requests have been handed to enqueue
  qStarted,   \* the requests whose handler was invoked, in the order of invocation
  qEnded,     \* the started requests whose response has ended
  qRefused,   \* the requests enqueue answered 503 'Request queue is full'
  qCleared,   \* the requests clear() answered 503 'Request queue cleared'
  mServed,    \* how many requests the server has answered since the run began
  mHistory,   \* RequestMonitor.history
  mLogged,    \* every log handed to addToHistory since the last clearHistory, oldest first
  mNextId,    \* the number of the next request to be logged
  mReturned,  \* the array getHistory returned last, or NoArray
  mClients,   \* RequestMonitor.clients: the open WebSocket connections
  cInbox,     \* per connection, the messages sent and not yet processed by the page
  cLogs       \* per connection, the logs state of the Monitor page

genVars == <<gMode, gSpec, gSchema, gVisited, gVisited0, gPhase, gResult, rStack, rRet>>
tplVars == <<tInput, tPhase, tResult>>
srvVars == <<sPhase, sConfig, sRoutes, sQueue, sProcessing, sActive, sSaved, sArrived, sLast>>
heapVars == <<hMode, hHeap, hHeap0, hRoot, hPhase, hResult>>
queueVars == <<qQueue, qProcessing, qArrived, qStarted, qEnded, qRefused, qCleared>>
monVars == <<mServed, mHistory, mLogged, mNextId, mReturned, mClients, cInbox, cLogs>>
vars == <<genVars, tplVars, srvVars, heapVars, queueVars, monVars>>

(***************************************************************************)
(* Bounds of the model.                                                    *)
(***************************************************************************)
\* Depth of nested generateFromSchema calls the call stack holds; one more
\* call raises RangeError (Maximum call stack size exceeded).
MaxStack == 6
\* A random integer range wider than this is sampled at its two ends, their
\* neighbours and its middle instead of being enumerated.
SampleWidth == 5

(***************************************************************************)
(* JavaScript values.  Every value carries its kind in field k and its     *)
(* payload in a field of its own, so that two values of different kinds    *)
(* are different records.                                                  *)
(***************************************************************************)
Undefined == [k |-> "undefined"]
Null == [k |-> "null"]
Bool(b) == [k |-> "boolean", b |-> b]
Num(n) == [k |-> "number", n |-> n]
\* a string known by its whole text (a type name, a format name, an enum value)
Str(s) == [k |-> "string", s |-> s]
\* a reference string, as its sequence of lexical tokens: "#", "/" and the
\* path segments between them ("#/components/schemas/A" is
\* <<"#", "/", "components", "/", "schemas", "/", "A">>)
RefStr(t) == [k |-> "string", t |-> t]
\* a string of len random alphanumeric characters (faker.string.alphanumeric)
GenStr(len) == [k |-> "string", len |-> len]
Arr(a) == [k |-> "array", a |-> a]
\* an object, as the function from its own keys to their values
Obj(f) == [k |-> "object", f |-> f]
EmptyObj == Obj(<<>>)
\* the outcome "an exception e was thrown"
Throw(e) == [k |-> "throw", e |-> e]
IsThrow(v) == v.k = "throw"

\* ToBoolean(v), as used by if (v), v || d, v && w
Truthy(v) ==
  CASE v.k = "undefined" -> FALSE
    [] v.k = "null" -> FALSE
    [] v.k = "boolean" -> v.b
    [] v.k = "number" -> ("n" \in DOMAIN v /\ v.n # 0)
    [] v.k = "string" -> (IF "s" \in DOMAIN v THEN v.s # ""
                          ELSE IF "t" \in DOMAIN v THEN v.t # <<>>
                          ELSE IF "c" \in DOMAIN v THEN v.c # <<>>
                          ELSE v.len > 0)
    [] OTHER -> TRUE

\* v.key for a value v that is neither null nor undefined
Prop(v, key) ==
  IF v.k = "object" /\ key \in DOMAIN v.f THEN v.f[key] ELSE Undefined

\* a || d
OrElse(a, d) == IF Truthy(a) THEN a ELSE d

\* list.length > 0 for a keyword that is absent or holds an array
NonEmptyList_Never(v) == v.k = "array" /\ Len(v.a) > Len(v.a)
NonEmptyList(v) == v.k = "array" /\ Len(v.a) > 0
Elements(v) == {v.a[i] : i \in 1..Len(v.a)}

(***************************************************************************)
(* The primitive value source (faker.js).  Each operator is the set of     *)
(* values the call can return; a range whose max is below its min is       *)
(* rejected with an exception.                                             *)
(***************************************************************************)
FakerError == Throw("FakerError")
RangeError == Throw("RangeError")

\* the integers of min..max that the model draws
IntSample(min, max) ==
  LET apart == min < 0 /\ max >= 0
      narrow == IF apart THEN max <= SampleWidth /\ min >= max - SampleWidth
                ELSE max - min <= SampleWidth
      middle == IF apart THEN (min + max) \div 2 ELSE min + (max - min) \div 2
  IN IF narrow THEN {min + i : i \in 0..(max - min)}
     ELSE {min, min + 1, middle, max - 1, max}

\* faker.number.int({ min, max })
FakerInt(min, max) ==
  IF max < min THEN {FakerError} ELSE {Num(n) : n \in IntSample(min, max)}

\* faker.number.float({ min, max }); the model draws the integral points
FakerFloat(min, max) ==
  IF max < min THEN {FakerError} ELSE {Num(n) : n \in IntSample(min, max)}

\* faker.datatype.boolean()
FakerBoolean == {Bool(TRUE), Bool(FALSE)}

\* faker.string.alphanumeric(length): '' for a length below 1
FakerAlphanumeric(length) == {GenStr(IF length < 0 THEN 0 ELSE length)}

\* faker.helpers.arrayElement(list), for a non-empty list
FakerArrayElement(list) == {list[i] : i \in 1..Len(list)}

(***************************************************************************)
(* DataGenerator.resolveRef (openapi-parser.ts 283-333)                    *)
(***************************************************************************)
\* ref.startsWith('#') ? ref.slice(1) : ref
CleanRef(t) == IF Len(t) > 0 /\ t[1] = "#" THEN Tail(t) ELSE t

\* cleanRef.split('/').filter((p) => p)
RefParts(t) == SelectSeq(CleanRef(t), LAMBDA x : x # "/")

\* the names of the first elements of an array, as property keys
IndexNames == <<"0", "1", "2", "3">>
ArrayKeys(a) ==
  {"length"} \cup {IndexNames[i] : i \in 1..(IF Len(a) < 4 THEN Len(a) ELSE 4)}

\* current && typeof current === 'object' && part in current
HasKey(current, part) ==
  \/ current.k = "object" /\ part \in DOMAIN current.f
  \/ current.k = "array" /\ part \in ArrayKeys(current.a)

\* current[part], given HasKey(current, part)
Member(current, part) ==
  IF current.k = "object" THEN current.f[part]
  ELSE IF part = "length" THEN Num(Len(current.a))
  ELSE current.a[CHOOSE i \in 1..Len(current.a) : IndexNames[i] = part]

\* the loop over parts: the node reached, or found = FALSE at the first
\* part that is not a key of the current node
RECURSIVE Walk(_, _)
Walk(current, parts) ==
  IF parts = <<>> THEN [found |-> TRUE, node |-> current]
  ELSE IF HasKey(current, Head(parts))
       THEN Walk(Member(current, Head(parts)), Tail(parts))
       ELSE [found |-> FALSE, node |-> Null]

\* visitedRefs.add(ref)
AfterAdd(visited, ref) == visited \cup {ref}

\* visitedRefs.delete(ref), on each way out of the try block
AfterDelete_Keep(visited, ref) == visited
AfterDelete(visited, ref) == visited \ {ref}

\* a ref that is not a string has no startsWith: the TypeError is caught
IsString(ref) == ref.k = "string"

\* resolveRef(ref, visitedRefs) as one call: the node returned (Null for
\* none) and the content of visitedRefs when it returns
RECURSIVE ResolveRef(_, _, _)
ResolveRef(spec, ref, visited) ==
  IF ref \in visited THEN [node |-> Null, visited |-> visited]
  ELSE IF ~Truthy(spec) THEN [node |-> Null, visited |-> visited]
  ELSE LET added == AfterAdd(visited, ref) IN
    IF ~IsString(ref) THEN [node |-> Null, visited |-> AfterDelete(added, ref)]
    ELSE LET w == Walk(spec, RefParts(ref.t)) IN
      IF ~w.found THEN [node |-> Null, visited |-> AfterDelete(added, ref)]
      ELSE IF Truthy(w.node) /\ Truthy(Prop(w.node, "$ref"))
        THEN LET resolved == ResolveRef(spec, Prop(w.node, "$ref"), added)
             IN [node |-> resolved.node, visited |-> AfterDelete(resolved.visited, ref)]
        ELSE [node |-> w.node, visited |-> AfterDelete(added, ref)]

(***************************************************************************)
(* DataGenerator.mergeSchemas (openapi-parser.ts 340-377)                  *)
(***************************************************************************)
\* the own entries that { ...v } copies: none for undefined
Entries(v) == IF v.k = "object" THEN v.f ELSE <<>>

\* { ...a, ...b }
Spread_KeepFirst(a, b) == Obj(Entries(a) @@ Entries(b))
Spread(a, b) == Obj(Entries(b) @@ Entries(a))

\* obj.key = val
SetKey(obj, key, val) == Obj((key :> val) @@ obj.f)

\* [...new Set(list)]: the first occurrence of every element, in order
RECURSIVE Dedup(_)
Dedup(list) ==
  IF list = <<>> THEN <<>>
  ELSE LET front == Dedup(SubSeq(list, 1, Len(list) - 1))
           last == list[Len(list)]
       IN IF \E i \in 1..Len(front) : front[i] = last THEN front
          ELSE Append(front, last)

\* [...new Set([...existingRequired, ...currentSchema.required])]
UnionRequired(existing, required) == Arr(Dedup(existing.a \o required.a))

\* one turn of the loop: currentSchema merged into merged
MergeStep(merged, currentSchema) ==
  LET curProps == Prop(currentSchema, "properties")
      curReq == Prop(currentSchema, "required")
      \* 356-358
      m1 == IF Truthy(curProps)
            THEN SetKey(merged, "properties", Spread(Prop(merged, "properties"), curProps))
            ELSE merged
      \* 360-363
      m2 == IF Truthy(curReq)
            THEN SetKey(m1, "required",
                        UnionRequired(OrElse(Prop(m1, "required"), Arr(<<>>)), curReq))
            ELSE m1
      \* 365
      m3 == Spread(m2, currentSchema)
      \* 367-369
      m4 == IF Truthy(Prop(m3, "properties")) /\ Truthy(curProps)
            THEN SetKey(m3, "properties", Spread(Prop(m3, "properties"), curProps))
            ELSE m3
      \* 370-373
      m5 == IF Truthy(curReq)
            THEN SetKey(m4, "required",
                        UnionRequired(OrElse(Prop(m4, "required"), Arr(<<>>)), curReq))
            ELSE m4
  IN m5

RECURSIVE MergeFrom(_, _, _)
MergeFrom(merged, schemas, i) ==
  IF i > Len(schemas) THEN merged
  ELSE MergeFrom(MergeStep(merged, schemas[i]), schemas, i + 1)

MergeSchemas(schemas) ==
  IF Len(schemas) = 0 THEN EmptyObj
  ELSE IF Len(schemas) = 1 THEN schemas[1]
  ELSE MergeFrom(Spread(schemas[1], EmptyObj), schemas, 2)

(***************************************************************************)
(* DataGenerator: the generators by type (openapi-parser.ts 384-545)       *)
(***************************************************************************)
\* an outcome of a call: the value returned (or Throw) and visitedRefs then
Out(val, vis) == [val |-> val, vis |-> vis]

\* inferType(schema): 'string' on both paths
InferType(schema) ==
  IF Truthy(Prop(schema, "format"))
     /\ Prop(schema, "format") \in
          {Str("uuid"), Str("email"), Str("date-time"), Str("date"), Str("uri"), Str("url")}
  THEN Str("string")
  ELSE Str("string")

\* the switch on format of generateString; each semantic generator of
\* faker is known by its name
StringFormats ==
  {"uuid", "uuid4", "email", "date-time", "datetime", "date", "uri", "url",
   "hostname", "ipv4", "ipv6", "password"}
FakerFormat(format) ==
  CASE format \in {"uuid", "uuid4"} -> {Str("faker.string.uuid")}
    [] format = "email" -> {Str("faker.internet.email")}
    [] format \in {"date-time", "datetime"} -> {Str("faker.date.anytime.toISOString")}
    [] format = "date" -> {Str("faker.date.past.toISOString.date")}
    [] format \in {"uri", "url"} -> {Str("faker.internet.url")}
    [] format = "hostname" -> {Str("faker.internet.domainName")}
    [] format = "ipv4" -> {Str("faker.internet.ip")}
    [] format = "ipv6" -> {Str("faker.internet.ipv6")}
    [] format = "password" -> {Str("faker.internet.password")}

\* generateString(schema): the values it can return
GenerateString(schema) ==
  LET format == OrElse(Prop(schema, "format"), Str(""))
      enumValues == Prop(schema, "enum")
  IN IF NonEmptyList(enumValues) THEN FakerArrayElement(enumValues.a)
     ELSE IF format.s \in StringFormats THEN FakerFormat(format.s)
     ELSE LET minLength == OrElse(Prop(schema, "minLength"), Num(1))
              maxLength == OrElse(Prop(schema, "maxLength"), Num(50))
          IN UNION {IF IsThrow(length) THEN {length} ELSE FakerAlphanumeric(length.n) :
                      length \in FakerInt(minLength.n, maxLength.n)}

\* Math.floor(a / b) for b # 0
FloorDiv_Up(a, b) == IF b > 0 THEN (a + b - 1) \div b ELSE (0 - a) \div (0 - b)
FloorDiv(a, b) == IF b > 0 THEN a \div b ELSE (0 - a) \div (0 - b)

\* x || d
Given_Falsy(x, d) == IF Truthy(x) THEN x ELSE d
\* x !== undefined ? x : d
Given(x, d) == IF x # Undefined THEN x ELSE d

\* generateNumber(schema): the values it can return
GenerateNumber(schema) ==
  LET isInteger == Prop(schema, "type") = Str("integer")
      minimum == Given(Prop(schema, "minimum"), Num(0))
      maximum == Given(Prop(schema, "maximum"), Num(1000))
      multipleOf == Prop(schema, "multipleOf")
      drawn == IF isInteger THEN FakerInt(minimum.n, maximum.n)
               ELSE FakerFloat(minimum.n, maximum.n)
  IN {IF IsThrow(value) THEN value
      ELSE IF Truthy(multipleOf) THEN Num(FloorDiv(value.n, multipleOf.n) * multipleOf.n)
      ELSE value : value \in drawn}

\* generateBoolean(schema)
GenerateBoolean(schema) == FakerBoolean

\* the bounds of the length drawn by generateArray
ArrayMinItems(schema) == OrElse(Prop(schema, "minItems"), Num(1))
ArrayMaxItems(schema) == OrElse(Prop(schema, "maxItems"), Num(5))
ArrayItems(schema) == OrElse(Prop(schema, "items"), Obj([type |-> Str("string")]))

\* the random part of an additional_<8 alphanumerics> key: two draws give
\* the same key or different ones
AdditionalKeys == {"additional_aaaaaaaa", "additional_bbbbbbbb", "additional_cccccccc"}

\* faker.number.int() without a range: some non-negative integers
FakerAnyInt == {Num(0), Num(1), Num(4096)}

\* schema.type alone
TypeOf_Declared(schema) == Prop(schema, "type")
\* the value of the switch  schema.type || inferType(schema)
TypeOf(schema) == OrElse(Prop(schema, "type"), InferType(schema))

\* what generateFromSchema returns for a $ref that resolveRef did not resolve
UnresolvedRefValue_Null == Null
UnresolvedRefValue == EmptyObj

RECURSIVE GenerateFromSchema(_, _, _, _)
RECURSIVE GenerateItems(_, _, _, _, _)
RECURSIVE GenerateProps(_, _, _, _, _)
RECURSIVE GenerateAdditional(_, _, _, _, _)
RECURSIVE ResolveMembers(_, _, _)

\* the loop of generateArray: the arrays of n elements, or the first throw
GenerateItems(spec, itemsSchema, n, visited, depth) ==
  IF n = 0 THEN {Out(Arr(<<>>), visited)}
  ELSE UNION {
    IF IsThrow(p.val) THEN {p}
    ELSE {IF IsThrow(e.val) THEN e ELSE Out(Arr(Append(p.val.a, e.val)), e.vis) :
            e \in GenerateFromSchema(spec, itemsSchema, p.vis, depth + 1)} :
    p \in GenerateItems(spec, itemsSchema, n - 1, visited, depth)}

\* generateArray(schema, visitedRefs)
GenerateArray(spec, schema, visited, depth) ==
  UNION {
    IF IsThrow(length) THEN {Out(length, visited)}
    ELSE GenerateItems(spec, ArrayItems(schema), length.n, visited, depth) :
    length \in FakerInt(ArrayMinItems(schema).n, ArrayMaxItems(schema).n)}

\* no property counts as required
IsRequired_Never(schema, key) == FALSE
\* schema.required?.includes(key) || false
IsRequired(schema, key) ==
  LET required == Prop(schema, "required")
  IN required.k = "array" /\ Str(key) \in Elements(required)

\* the loop of generateObject over the declared properties keys: a
\* property is generated when it is required or the coin says so
GenerateProps(spec, schema, keys, visited, depth) ==
  IF keys = {} THEN {Out(EmptyObj, visited)}
  ELSE LET key == CHOOSE x \in keys : TRUE
           propSchema == Prop(schema, "properties").f[key]
       IN UNION {
         IF IsThrow(p.val) THEN {p}
         ELSE (IF IsRequired(schema, key) THEN {} ELSE {p}) \cup
              {IF IsThrow(e.val) THEN e ELSE Out(SetKey(p.val, key, e.val), e.vis) :
                 e \in GenerateFromSchema(spec, propSchema, p.vis, depth + 1)} :
         p \in GenerateProps(spec, schema, keys \ {key}, visited, depth)}

\* the loop of generateObject that adds count additional_<random> keys to
\* the outcomes in base
GenerateAdditional(spec, schema, count, base, depth) ==
  IF count = 0 THEN base
  ELSE LET additional == Prop(schema, "additionalProperties")
       IN UNION {
         IF IsThrow(p.val) THEN {p}
         ELSE IF additional.k \in {"object", "array"}
           THEN {IF IsThrow(e.val) THEN e ELSE Out(SetKey(p.val, key, e.val), e.vis) :
                   e \in GenerateFromSchema(spec, additional, p.vis, depth + 1),
                   key \in AdditionalKeys}
         ELSE IF additional = Bool(TRUE)
           THEN {Out(SetKey(p.val, key, v), p.vis) :
                   v \in FakerAlphanumeric(10) \cup FakerAnyInt \cup FakerBoolean,
                   key \in AdditionalKeys}
         ELSE {p} :
         p \in GenerateAdditional(spec, schema, count - 1, base, depth)}

\* generateObject(schema, visitedRefs)
GenerateObject(spec, schema, visited, depth) ==
  LET properties == OrElse(Prop(schema, "properties"), EmptyObj)
      declared == GenerateProps(spec, schema, DOMAIN properties.f, visited, depth)
  IN IF Truthy(Prop(schema, "additionalProperties"))
     THEN UNION {GenerateAdditional(spec, schema, additionalCount.n, declared, depth) :
                   additionalCount \in FakerInt(0, 3)}
     ELSE declared

\* schema.allOf.map(s => s.$ref ? this.resolveRef(s.$ref, visitedRefs) || s : s)
ResolveMembers(spec, members, visited) ==
  IF members = <<>> THEN [list |-> <<>>, visited |-> visited]
  ELSE LET front == ResolveMembers(spec, SubSeq(members, 1, Len(members) - 1), visited)
           s == members[Len(members)]
       IN IF Truthy(Prop(s, "$ref"))
          THEN LET r == ResolveRef(spec, Prop(s, "$ref"), front.visited)
               IN [list |-> Append(front.list, OrElse(r.node, s)), visited |-> r.visited]
          ELSE [list |-> Append(front.list, s), visited |-> front.visited]

\* generateFromSchema(schema, visitedRefs), as the depth-th nested call of
\* itself: the outcomes it can have
GenerateFromSchema(spec, schema, visited, depth) ==
  IF depth > MaxStack THEN {Out(RangeError, visited)}
  ELSE IF ~Truthy(schema) THEN {Out(Null, visited)}
  ELSE IF Truthy(Prop(schema, "$ref")) THEN
    LET r == ResolveRef(spec, Prop(schema, "$ref"), visited)
    IN (IF Truthy(r.node) THEN GenerateFromSchema(spec, r.node, r.visited, depth + 1)
        ELSE {Out(UnresolvedRefValue, r.visited)})
       \* the last frame the stack holds: the calls made inside the try
       \* block of resolveRef overflow, the catch returns null
       \cup (IF depth = MaxStack /\ Truthy(spec) /\ Prop(schema, "$ref") \notin visited
             THEN {Out(UnresolvedRefValue, visited)} ELSE {})
  ELSE IF NonEmptyList(Prop(schema, "oneOf")) THEN
    UNION {GenerateFromSchema(spec, selected, visited, depth + 1) :
             selected \in FakerArrayElement(Prop(schema, "oneOf").a)}
  ELSE IF NonEmptyList(Prop(schema, "anyOf")) THEN
    UNION {GenerateFromSchema(spec, selected, visited, depth + 1) :
             selected \in FakerArrayElement(Prop(schema, "anyOf").a)}
  ELSE IF NonEmptyList(Prop(schema, "allOf")) THEN
    LET resolved == ResolveMembers(spec, Prop(schema, "allOf").a, visited)
    IN GenerateFromSchema(spec, MergeSchemas(resolved.list), resolved.visited, depth + 1)
  ELSE
    LET type == TypeOf(schema)
    IN CASE type = Str("string") -> {Out(v, visited) : v \in GenerateString(schema)}
         [] type \in {Str("number"), Str("integer")} ->
              {Out(v, visited) : v \in GenerateNumber(schema)}
         [] type = Str("boolean") -> {Out(v, visited) : v \in GenerateBoolean(schema)}
         [] type = Str("array") -> GenerateArray(spec, schema, visited, depth)
         [] type = Str("object") -> GenerateObject(spec, schema, visited, depth)
         [] type = Str("null") -> {Out(Null, visited)}
         [] OTHER -> {Out(Null, visited)}

(***************************************************************************)
(* The inputs of the DataGenerator runs: root documents with the named      *)
(* schemas A, B and C under components.schemas, references into them, and  *)
(* schema nodes that need no document.                                     *)
(***************************************************************************)
RefTo(name) == RefStr(<<"#", "/", "components", "/", "schemas", "/", name>>)
RefNode(ref) == Obj("$ref" :> ref)
BooleanSchema == Obj([type |-> Str("boolean")])

IdObject ==
  Obj([type |-> Str("object"),
       properties |-> Obj([id |-> BooleanSchema]),
       required |-> Arr(<<Str("id")>>)])

RootDocument(a, b) ==
  Obj([info |-> Obj([title |-> Str("api")]),
       components |-> Obj([schemas |-> Obj([A |-> a, B |-> b, C |-> IdObject])])])

\* A as an object whose property self is A again
SelfProperty(required) ==
  Obj([type |-> Str("object"),
       properties |-> Obj([self |-> RefNode(RefTo("A"))]),
       required |-> Arr(required)])
\* A as an array of A
SelfItems == Obj([type |-> Str("array"), maxItems |-> Num(1), items |-> RefNode(RefTo("A"))])
\* A as a composition with A as its only member
SelfMember(keyword) == Obj(keyword :> Arr(<<RefNode(RefTo("A"))>>))

\* the nodes of A that close a cycle through A itself
CyclicNodesA ==
  {RefNode(RefTo("A")), SelfProperty(<<Str("self")>>), SelfProperty(<<>>), SelfItems,
   SelfMember("oneOf"), SelfMember("anyOf"), SelfMember("allOf")}
NodesA ==
  CyclicNodesA \cup {RefNode(RefTo("B")), RefNode(RefTo("Missing")), BooleanSchema, IdObject}
NodesB ==
  {RefNode(RefTo("A")), RefNode(RefTo("B")), RefNode(RefTo("C")), RefNode(Num(5)),
   BooleanSchema, Null, Str("text")}

Documents == {RootDocument(a, b) : a \in NodesA, b \in NodesB}

\* the references handed to the generator
Refs ==
  {RefTo("A"), RefTo("B"), RefTo("Missing"),
   RefStr(<<"components", "/", "schemas", "/", "A">>),
   RefStr(<<"#", "/", "/", "components", "/", "schemas", "/", "B", "/">>),
   RefStr(<<"#", "/", "info", "/", "title">>),
   RefStr(<<"#", "/", "info", "/", "title", "/", "x">>),
   RefStr(<<"#", "/", "components", "/", "schemas", "/", "A", "/", "allOf", "/", "0">>),
   Num(5)}

\* key: v as an entry of an object literal; nothing when v is Undefined
Opt(key, v) == IF v = Undefined THEN <<>> ELSE (key :> v)

\* an integer schema no draw satisfies: its minimum is above the default maximum
EmptyRangeInteger == Obj([type |-> Str("integer"), minimum |-> Num(2000)])
FiveSchema == Obj([type |-> Str("integer"), minimum |-> Num(5), maximum |-> Num(5)])

ArraySchemas ==
  {Obj(("type" :> Str("array")) @@ Opt("minItems", lo) @@ Opt("maxItems", hi)
       @@ Opt("items", items)) :
     lo \in {Undefined, Num(0), Num(2), Num(3), Num(10)},
     hi \in {Undefined, Num(0), Num(2), Num(3)},
     items \in {Undefined, BooleanSchema, FiveSchema, EmptyRangeInteger}}

NumberSchemas ==
  {Obj(("type" :> Str(type)) @@ Opt("minimum", lo) @@ Opt("maximum", hi)
       @@ Opt("multipleOf", m)) :
     type \in {"integer", "number"},
     lo \in {Undefined, Num(0), Num(5), Num(2000), Num(-7)},
     hi \in {Undefined, Num(0), Num(5), Num(12)},
     m \in {Undefined, Num(3)}}

StringSchemas ==
  {Obj(("type" :> Str("string")) @@ Opt("minLength", lo) @@ Opt("maxLength", hi)) :
     lo \in {Undefined, Num(0), Num(4), Num(60)},
     hi \in {Undefined, Num(0), Num(2), Num(4)}}

\* object schemas that declare one boolean property each, as members of allOf
Member1(name, type, required) ==
  Obj(Opt("type", type) @@ ("properties" :> Obj(name :> BooleanSchema))
      @@ Opt("required", required))
MemberSchemas ==
  {Member1(name, type, IF required THEN Arr(<<Str(name)>>) ELSE Undefined) :
     name \in {"x", "y"},
     type \in {Undefined, Str("object")},
     required \in BOOLEAN}
AllOfSchemas ==
  {Obj([allOf |-> Arr(<<m1, m2>>)]) : m1 \in MemberSchemas, m2 \in MemberSchemas}
    \cup {Obj([allOf |-> Arr(<<m>>)]) : m \in MemberSchemas}
    \cup {Obj([allOf |-> Arr(<<Member1("x", Str("object"), Arr(<<Str("x")>>)),
                               Member1("y", Undefined, Arr(<<Str("y")>>)),
                               Member1("z", Undefined, Arr(<<Str("z")>>))>>)])}

\* a string schema no draw satisfies: its minLength is above the default maxLength
EmptyRangeString == Obj([type |-> Str("string"), minLength |-> Num(60)])

\* object schemas: up to two declared properties, some of them required,
\* a required name that is not declared, and additionalProperties absent,
\* false, true or a schema
ObjectSchemas ==
  {Obj(("type" :> Str("object")) @@ Opt("properties", properties)
       @@ Opt("required", required) @@ Opt("additionalProperties", additional)) :
     properties \in {Undefined, Obj([id |-> BooleanSchema]),
                     Obj([id |-> BooleanSchema, n |-> FiveSchema]),
                     Obj([id |-> FiveSchema, s |-> EmptyRangeString])},
     required \in {Undefined, Arr(<<>>), Arr(<<Str("id")>>), Arr(<<Str("id"), Str("n")>>),
                   Arr(<<Str("s"), Str("other")>>)},
     additional \in {Undefined, Bool(FALSE), Bool(TRUE), FiveSchema}}

\* absent and falsy schemas, nodes without a type, and nodes whose type
\* is "null", empty, unknown or no string
PlainSchemas ==
  {Undefined, Null, Bool(FALSE), Num(0), Bool(TRUE), EmptyObj, BooleanSchema,
   Obj([type |-> Str("null")]), Obj([type |-> Str("file")]), Obj([type |-> Str("")]),
   Obj([type |-> Num(7)]), Obj([type |-> Arr(<<Str("string"), Str("null")>>)]),
   Obj([format |-> Str("uuid")]), Obj([format |-> Str("int32")]),
   Obj([properties |-> Obj([id |-> BooleanSchema])]), Obj([items |-> BooleanSchema]),
   Obj([minimum |-> Num(5)]), Obj([minLength |-> Num(60)]),
   Obj([enum |-> Arr(<<Num(1), Str("a")>>)]),
   Obj([type |-> Str("string"), enum |-> Arr(<<Str("a"), Str("b")>>)])}

\* nodes that hold several of the keywords generateFromSchema dispatches on:
\* oneOf generates 5, anyOf a boolean, allOf an object, type null
KeywordSchemas ==
  {Obj(Opt("oneOf", oneOf) @@ Opt("anyOf", anyOf) @@ Opt("allOf", allOf) @@ Opt("type", type)) :
     oneOf \in {Undefined, Arr(<<>>), Arr(<<FiveSchema>>), Arr(<<FiveSchema, IdObject>>)},
     anyOf \in {Undefined, Arr(<<>>), Arr(<<BooleanSchema>>)},
     allOf \in {Undefined, Arr(<<>>), Arr(<<IdObject>>)},
     type \in {Undefined, Str("null")}}
\* nodes that hold $ref next to other keywords
RefSiblingSchemas ==
  {Obj(("$ref" :> ref) @@ siblings.f) :
     ref \in {RefTo("A"), RefTo("C"), RefTo("Missing")},
     siblings \in {BooleanSchema, FiveSchema, Obj([oneOf |-> Arr(<<FiveSchema>>)]),
                   Obj([allOf |-> Arr(<<FiveSchema>>), type |-> Str("null")])}}
\* the root document of the runs from those nodes: A is a boolean, C an object
SiblingDocument == RootDocument(BooleanSchema, BooleanSchema)

\* members of allOf that set keywords other than properties and required
ScalarMembers ==
  {FiveSchema, BooleanSchema, Obj([minimum |-> Num(7), maximum |-> Num(7)]),
   Obj([maximum |-> Num(9)]), Obj([type |-> Str("integer"), multipleOf |-> Num(500)]),
   Obj([type |-> Str("array"), minItems |-> Num(1), maxItems |-> Num(1), items |-> BooleanSchema])}
ScalarAllOfSchemas ==
  {Obj([allOf |-> Arr(<<a>>)]) : a \in ScalarMembers}
  \cup {Obj([allOf |-> Arr(<<a, b>>)]) : a, b \in ScalarMembers}
  \cup {Obj([allOf |-> Arr(<<a, b, c>>)]) : a, b, c \in ScalarMembers}

\* the schema nodes that reach no reference
InlineSchemas ==
  ArraySchemas \cup NumberSchemas \cup StringSchemas \cup AllOfSchemas \cup ObjectSchemas
    \cup PlainSchemas \cup KeywordSchemas \cup ScalarAllOfSchemas

\* the content of visitedRefs handed to the top-level call
VisitedSets == {{}, {RefTo("A")}, {RefTo("B"), RefTo("Missing")}}

(***************************************************************************)
(* DataGenerator as a state machine.  A run exercises one method:          *)
(*   "generate":   generateFromSchema(gSchema, gVisited), as one step;     *)
(*   "resolveRef": resolveRef(gSchema.$ref, gVisited), frame by frame.     *)
(***************************************************************************)
\* a run of DataGenerator leaves the template engine alone
TemplateIdle == tInput = Undefined /\ tPhase = "idle" /\ tResult = Undefined

\* no response has been sent yet
NoResponse == [none |-> TRUE]
\* no server has been constructed
ServerIdle ==
  /\ sPhase = "idle"
  /\ sConfig = <<>>
  /\ sRoutes = <<>>
  /\ sQueue = <<>>
  /\ sProcessing = FALSE
  /\ sActive = {}
  /\ sSaved = {}
  /\ sArrived = 0
  /\ sLast = NoResponse

\* no call runs on the object store
HeapIdle ==
  /\ hMode = "idle"
  /\ hHeap = <<>>
  /\ hHeap0 = <<>>
  /\ hRoot = Undefined
  /\ hPhase = "idle"
  /\ hResult = Undefined

\* no request queue stands on its own
QueueIdle ==
  /\ qQueue = <<>>
  /\ qProcessing = FALSE
  /\ qArrived = 0
  /\ qStarted = <<>>
  /\ qEnded = {}
  /\ qRefused = {}
  /\ qCleared = {}

\* getHistory has not been called
NoArray == [none |-> TRUE]
\* no request monitor has been constructed
MonitorIdle ==
  /\ mServed = 0
  /\ mHistory = <<>>
  /\ mLogged = <<>>
  /\ mNextId = 0
  /\ mReturned = NoArray
  /\ mClients = {}
  /\ cInbox = <<>>
  /\ cLogs = <<>>

NoReturn == [node |-> Undefined, before |-> {}, none |-> TRUE]
\* the value a resolveRef frame returned and visitedRefs as that frame found it
Returned(node, before) == [node |-> node, before |-> before]

InitGenerate ==
  /\ gMode = "generate"
  /\ \/ /\ gSpec \in Documents \cup {Undefined}
        /\ gSchema \in {RefNode(ref) : ref \in Refs}
        /\ gVisited \in VisitedSets
     \/ /\ gSpec = Undefined
        /\ gSchema \in InlineSchemas
        /\ gVisited = {}
     \/ /\ gSpec = SiblingDocument
        /\ gSchema \in RefSiblingSchemas
        /\ gVisited = {}
  /\ gVisited0 = gVisited
  /\ gPhase = "ready"
  /\ gResult = Undefined
  /\ rStack = <<>>
  /\ rRet = NoReturn

InitResolveRef ==
  /\ gMode = "resolveRef"
  /\ gSpec \in Documents \cup {Undefined}
  /\ gSchema \in {RefNode(ref) : ref \in Refs}
  /\ gVisited \in VisitedSets
  /\ gVisited0 = gVisited
  /\ gPhase = "ready"
  /\ gResult = Undefined
  /\ rStack = <<>>
  /\ rRet = NoReturn

\* the top-level call generateFromSchema(gSchema, gVisited)
Generate ==
  /\ gMode = "generate"
  /\ gPhase = "ready"
  /\ \E o \in GenerateFromSchema(gSpec, gSchema, gVisited, 1) :
       /\ gResult' = o.val
       /\ gVisited' = o.vis
  /\ gPhase' = "done"
  /\ UNCHANGED <<gMode, gSpec, gSchema, gVisited0, rStack, rRet, tplVars, srvVars, heapVars, queueVars, monVars>>

\* resolveRef(ref, visitedRefs) up to the try block (285-296), on top of the
\* frames in stack: either it returns null at once or its frame becomes active
Enter(ref, stack) ==
  IF ref \in gVisited \/ ~Truthy(gSpec)
  THEN /\ rRet' = Returned(Null, gVisited)
       /\ rStack' = stack
       /\ gVisited' = gVisited
  ELSE /\ rRet' = NoReturn
       /\ rStack' = <<[ref |-> ref, pc |-> "walk", before |-> gVisited]>> \o stack
       /\ gVisited' = AfterAdd(gVisited, ref)

\* the frame on top ends: visitedRefs.delete(ref); return node
Leave_Null(node) ==
  /\ gVisited' = AfterDelete(gVisited, Head(rStack).ref)
  /\ rStack' = Tail(rStack)
  /\ rRet' = Returned(Null, Head(rStack).before)
Leave(node) ==
  /\ gVisited' = AfterDelete(gVisited, Head(rStack).ref)
  /\ rStack' = Tail(rStack)
  /\ rRet' = Returned(node, Head(rStack).before)

\* the top-level call ends when its frame does
Finish ==
  IF rStack' = <<>>
  THEN gPhase' = "done" /\ gResult' = rRet'.node
  ELSE gPhase' = "running" /\ gResult' = gResult

ResolveRefCall ==
  /\ gMode = "resolveRef"
  /\ gPhase = "ready"
  /\ Enter(Prop(gSchema, "$ref"), <<>>)
  /\ Finish
  /\ UNCHANGED <<gMode, gSpec, gSchema, gVisited0, tplVars, srvVars, heapVars, queueVars, monVars>>

\* the try block of the frame on top (298-327), up to its return or to the
\* nested call for the $ref of the node it reached
ResolveRefWalk ==
  /\ gMode = "resolveRef"
  /\ rStack # <<>>
  /\ Head(rStack).pc = "walk"
  /\ LET ref == Head(rStack).ref
         w == IF IsString(ref) THEN Walk(gSpec, RefParts(ref.t))
              ELSE [found |-> FALSE, node |-> Null]
     IN IF ~IsString(ref) \/ ~w.found THEN Leave(Null)
        ELSE IF Truthy(w.node) /\ Truthy(Prop(w.node, "$ref"))
          THEN Enter(Prop(w.node, "$ref"),
                     <<[Head(rStack) EXCEPT !.pc = "nested"]>> \o Tail(rStack))
          ELSE Leave(w.node)
  /\ Finish
  /\ UNCHANGED <<gMode, gSpec, gSchema, gVisited0, tplVars, srvVars, heapVars, queueVars, monVars>>

\* the nested call has returned (320-322): delete ref, return resolved
ResolveRefResume ==
  /\ gMode = "resolveRef"
  /\ rStack # <<>>
  /\ Head(rStack).pc = "nested"
  /\ rRet # NoReturn
  /\ Leave(rRet.node)
  /\ Finish
  /\ UNCHANGED <<gMode, gSpec, gSchema, gVisited0, tplVars, srvVars, heapVars, queueVars, monVars>>

InitGen ==
  (InitGenerate \/ InitResolveRef) /\ TemplateIdle /\ ServerIdle /\ HeapIdle /\ QueueIdle /\ MonitorIdle
NextGen == Generate \/ ResolveRefCall \/ ResolveRefWalk \/ ResolveRefResume
SpecGen == InitGen /\ [][NextGen]_vars

\* the frame-by-frame run of resolveRef ends as the one-call operator says
ResolveRefAgrees ==
  (gMode = "resolveRef" /\ gPhase = "done") =>
    LET r == ResolveRef(gSpec, Prop(gSchema, "$ref"), gVisited0)
    IN gResult = r.node /\ gVisited = r.visited

(***************************************************************************)
(* Claims about DataGenerator, checked under SpecGen.                      *)
(***************************************************************************)
GenerateDone == gMode = "generate" /\ gPhase = "done"
\* the nodes of A and B in the root document of the run
NodeA == gSpec.f["components"].f["schemas"].f["A"]
NodeB == gSpec.f["components"].f["schemas"].f["B"]
\* the reference of the schema node of the run
TopRef == Prop(gSchema, "$ref")

\* generateFromSchema({$ref: A}) with a fresh visited set, in a document
\* where A reaches itself through $ref
CyclicInput ==
  /\ gMode = "generate"
  /\ gVisited0 = {}
  /\ gSpec # Undefined
  /\ TopRef = RefTo("A")
  /\ \/ NodeA \in CyclicNodesA
     \/ NodeA = RefNode(RefTo("B")) /\ NodeB \in {RefNode(RefTo("A")), RefNode(RefTo("B"))}

\* the values in which A is expanded once and the repeated reference is {}
OnceExpanded(a) ==
  CASE a = SelfProperty(<<Str("self")>>) -> {Obj([self |-> EmptyObj])}
    [] a = SelfProperty(<<>>) -> {EmptyObj, Obj([self |-> EmptyObj])}
    [] a = SelfItems -> {Arr(<<EmptyObj>>)}
    [] OTHER -> {EmptyObj}

\* C1: in every root document in which a schema reaches itself through $ref
\* (a $ref chain that leads back, or a property, the array items or a
\* composition member that references the schema itself), generateFromSchema
\* called with a fresh visited set terminates, and the branch at which the
\* reference repeats is the empty mapping {}.
C1_CyclicRefYieldsEmpty ==
  (CyclicInput /\ gPhase = "done") =>
    (~IsThrow(gResult) /\ gResult \in OnceExpanded(NodeA))

\* C2: generateFromSchema never raises: it returns a value for every schema
\* node, also for one whose bounds give an empty range (minimum above
\* maximum, minItems above maxItems, minLength above maxLength, one given
\* bound beyond the default of the other).  Stated for the nodes that hold
\* no reference.
C2_NeverRaises ==
  (GenerateDone /\ gSchema \in InlineSchemas) => ~IsThrow(gResult)

\* the members of the allOf of the run
AllOfMembers == Prop(gSchema, "allOf").a
DeclaredNames(m) == DOMAIN Entries(Prop(m, "properties"))
RequiredNames(m) == Elements(OrElse(Prop(m, "required"), Arr(<<>>)))

\* C3: for an allOf of two or more object schemas the merged schema has the
\* key-wise union of the members' properties and the union of their required
\* lists, so the generated value holds every required property of every
\* member (both x and y for {properties:{x}, required:[x]} and
\* {properties:{y}, required:[y]}).
C3_AllOfUnion ==
  (GenerateDone /\ gSchema \in AllOfSchemas /\ Len(AllOfMembers) >= 2
     /\ \A i \in 1..Len(AllOfMembers) : Prop(AllOfMembers[i], "type") = Str("object")) =>
    LET merged == MergeSchemas(AllOfMembers)
        members == Elements(Prop(gSchema, "allOf"))
    IN /\ DeclaredNames(merged) = UNION {DeclaredNames(m) : m \in members}
       /\ RequiredNames(merged) = UNION {RequiredNames(m) : m \in members}
       /\ gResult.k = "object"
       /\ \A m \in members : \A name \in RequiredNames(m) : name.s \in DOMAIN gResult.f

\* C6: resolveRef leaves the visited set as it found it: whenever a frame
\* has returned (resolved, not found, non-traversable, no root document,
\* cycle, nested $ref followed), the set is what it was when that frame was
\* called; the ref of every active frame is in the set; and when a top-level
\* generateFromSchema that started with an empty set has returned, the set
\* is empty.
C6_VisitedRestored ==
  /\ rRet # NoReturn => gVisited = rRet.before
  /\ \A i \in 1..Len(rStack) : rStack[i].ref \in gVisited
  /\ (GenerateDone /\ gVisited0 = {} /\ ~IsThrow(gResult)) => gVisited = {}
  /\ (gMode = "resolveRef" /\ gPhase = "done") => gVisited = gVisited0

\* a nested $ref was followed to a node and has returned it, into a frame
\* that is still active, of a call that was handed a non-empty set
C6_Witness ==
  /\ gMode = "resolveRef"
  /\ Len(rStack) = 1
  /\ rStack[1].pc = "nested"
  /\ rRet # NoReturn
  /\ rRet.node = BooleanSchema
  /\ gVisited0 # {}

\* the references no document of the model resolves: no schema is named
\* Missing, and info.title is a string
DanglingRefs == {RefTo("Missing"), RefStr(<<"#", "/", "info", "/", "title", "/", "x">>)}

\* the $ref of the run cannot be resolved
UnresolvableInput ==
  /\ Truthy(TopRef)
  /\ \/ gSpec = Undefined
     \/ TopRef \in gVisited0
     \/ TopRef \in DanglingRefs
     \/ /\ TopRef = RefTo("A")
        /\ NodeA \in {RefNode(RefTo("A")), RefNode(RefTo("Missing"))}

Nullish(x, d) == IF x \in {Undefined, Null} THEN d ELSE x
\* the item schemas of the model that generate without raising
SafeItems == {Undefined, BooleanSchema, FiveSchema}

\* C10: for every array schema whose lower bound is not above its upper
\* bound, the generated sequence has a length in
\* [minItems ?? 1, maxItems ?? 5], an explicitly given bound (0 included)
\* being used, and every element is a value generated from items (default
\* {type: "string"}).
C10_ArrayLengthInBounds ==
  LET lo == Nullish(Prop(gSchema, "minItems"), Num(1)).n
      hi == Nullish(Prop(gSchema, "maxItems"), Num(5)).n
  IN (GenerateDone /\ gSchema \in ArraySchemas /\ lo <= hi
        /\ Prop(gSchema, "items") \in SafeItems) =>
       /\ gResult.k = "array"
       /\ lo <= Len(gResult.a) /\ Len(gResult.a) <= hi
       /\ \A i \in 1..Len(gResult.a) :
            \E o \in GenerateFromSchema(gSpec, ArrayItems(gSchema), {}, 2) :
              gResult.a[i] = o.val

(***************************************************************************)
(* TemplateEngine (swagger-client.d.ts 31-612).                            *)
(*                                                                         *)
(* A string of the template engine is the sequence of its lexical tokens:  *)
(* every character that is not a letter is a token of its own ("{", "}",   *)
(* ":", " ", "-", "_", each digit) and every maximal run of letters is one *)
(* token ("{{int:5:5}}" is                                                 *)
(*   <<"{", "{", "int", ":", "5", ":", "5", "}", "}">>).                   *)
(* Two strings are equal exactly when their token sequences are.  The text *)
(* that faker generates is given by tokens that name it.                   *)
(***************************************************************************)
TStr(c) == [k |-> "string", c |-> c]
\* a mapping, as its entries in the order of Object.entries
TMap(e) == [k |-> "object", e |-> e]
Entry(key, val) == [key |-> key, val |-> val]
NaN == [k |-> "number", nan |-> TRUE]

\* String.prototype.trim
RECURSIVE TrimLeft(_)
TrimLeft(str) == IF str # <<>> /\ Head(str) = " " THEN TrimLeft(Tail(str)) ELSE str
RECURSIVE TrimRight(_)
TrimRight(str) ==
  IF str # <<>> /\ str[Len(str)] = " " THEN TrimRight(SubSeq(str, 1, Len(str) - 1))
  ELSE str
Trim(str) == TrimRight(TrimLeft(str))

\* String.prototype.toLowerCase, on the tokens with capital letters that
\* the model writes
LowerOf(token) ==
  CASE token = "INT" -> "int"
    [] token = "Uuid" -> "uuid"
    [] token = "Price" -> "price"
    [] token = "Unknown" -> "unknown"
    [] token = "XYZ" -> "xyz"
    [] OTHER -> token
ToLowerCase(str) == [i \in 1..Len(str) |-> LowerOf(str[i])]

\* the index of the first token of str that is in tokens, 0 for none
RECURSIVE IndexOf(_, _, _)
IndexOf(str, tokens, from) ==
  IF from > Len(str) THEN 0
  ELSE IF str[from] \in tokens THEN from
  ELSE IndexOf(str, tokens, from + 1)

\* str.split(':')
RECURSIVE Split(_)
Split(str) ==
  LET i == IndexOf(str, {":"}, 1)
  IN IF i = 0 THEN <<str>>
     ELSE <<SubSeq(str, 1, i - 1)>> \o Split(SubSeq(str, i + 1, Len(str)))

Digits == <<"0", "1", "2", "3", "4", "5", "6", "7", "8", "9">>
IsDigit(token) == \E d \in 1..10 : Digits[d] = token
DigitValue(token) == (CHOOSE d \in 1..10 : Digits[d] = token) - 1

\* the bounds of the clamp of case 'int' (136-137)
Int32Max == 2147483647
Int32Min == 0 - Int32Max - 1

\* the value of the digits str[1..n], or -1 when it is above Int32Max
RECURSIVE DigitsValue(_, _)
DigitsValue(str, n) ==
  IF n = 0 THEN 0
  ELSE LET front == DigitsValue(str, n - 1)
           digit == DigitValue(str[n])
       IN IF front = -1 \/ front > (Int32Max - digit) \div 10 THEN -1
          ELSE 10 * front + digit

\* the number of digits that str starts with
RECURSIVE LeadingDigits(_)
LeadingDigits(str) ==
  IF str # <<>> /\ IsDigit(Head(str)) THEN 1 + LeadingDigits(Tail(str)) ELSE 0

\* parseInt(str, 10): leading white space, a sign, then digits; NaN without
\* a digit; what follows the digits is ignored.  A number outside
\* Int32Min..Int32Max is given as the bound next to it
ParseInt(str) ==
  LET t == TrimLeft(str)
      signed == t # <<>> /\ Head(t) \in {"-", "+"}
      negative == signed /\ Head(t) = "-"
      u == IF signed THEN Tail(t) ELSE t
      n == LeadingDigits(u)
      value == DigitsValue(u, n)
  IN IF n = 0 THEN NaN
     ELSE IF value = -1 THEN Num(IF negative THEN Int32Min ELSE Int32Max)
     ELSE IF negative THEN Num(0 - value)
     ELSE Num(value)

\* parseFloat(str): on a string without ".", an exponent or "Infinity" it
\* reads the same number as parseInt
ParseFloat(str) == ParseInt(str)

\* Number.isFinite(v)
IsFinite(v) == v.k = "number" /\ "n" \in DOMAIN v

\* n.toString() for an integer n
RECURSIVE NatToString(_)
NatToString(n) ==
  IF n < 10 THEN <<Digits[n + 1]>> ELSE Append(NatToString(n \div 10), Digits[(n % 10) + 1])
IntToString(n) ==
  IF n = Int32Min THEN <<"-">> \o NatToString(Int32Max \div 10) \o <<"8">>
  ELSE IF n < 0 THEN <<"-">> \o NatToString(0 - n)
  ELSE NatToString(n)

\* Math.max(lo, Math.min(hi, v))
Clamp_Upper(lo, hi, v) == IF v > hi THEN hi ELSE v
Clamp(lo, hi, v) == IF v > hi THEN (IF hi < lo THEN lo ELSE hi) ELSE IF v < lo THEN lo ELSE v
Min2(a, b) == IF a < b THEN a ELSE b
Max2(a, b) == IF a > b THEN a ELSE b

\* params[i] is given and is not the empty string (params[i] ? ... : ...)
HasParam(params, i) == i <= Len(params) /\ params[i] # <<>>
\* params[i] ? parse(params[i]) : default
IntParam(params, i, default) == IF HasParam(params, i) THEN ParseInt(params[i]) ELSE Num(default)
FloatParam(params, i, default) ==
  IF HasParam(params, i) THEN ParseFloat(params[i]) ELSE Num(default)
\* Number.isFinite(v) ? Math.max(lo, Math.min(hi, v)) : 0
SafeInt_Zero(v, lo, hi, default) == IF IsFinite(v) THEN Clamp(lo, hi, v.n) ELSE 0
\* Number.isFinite(v) ? Math.max(lo, Math.min(hi, v)) : default
SafeInt(v, lo, hi, default) == IF IsFinite(v) THEN Clamp(lo, hi, v.n) ELSE default
\* Number.isFinite(v) ? v : default
SafeFloat(v, default) == IF IsFinite(v) THEN v.n ELSE default

\* a string of n characters, each the token c
Repeat(c, n) == [i \in 1..n |-> c]
\* n words with single spaces between them
RECURSIVE Words(_)
Words(n) == IF n <= 1 THEN <<"lorem">> ELSE Words(n - 1) \o <<" ", "lorem">>

\* the decimal text of the numbers faker draws, or its exception
NumberTexts(drawn) == {IF IsThrow(v) THEN v ELSE TStr(IntToString(v.n)) : v \in drawn}

\* case 'int', 'integer' (130-142)
IntTemplate(params) ==
  LET min == IntParam(params, 1, 0)
      max == IntParam(params, 2, 1000)
      safeMin == SafeInt(min, Int32Min, Int32Max, 0)
      safeMax == SafeInt(max, Int32Min, Int32Max, 1000)
  IN NumberTexts(FakerInt(Min2(safeMin, safeMax), Max2(safeMin, safeMax)))

\* case 'float' (143-154)
FloatTemplate(params) ==
  LET safeMin == SafeFloat(FloatParam(params, 1, 0), 0)
      safeMax == SafeFloat(FloatParam(params, 2, 1000), 1000)
  IN NumberTexts(FakerFloat(Min2(safeMin, safeMax), Max2(safeMin, safeMax)))

\* the range handed to faker.finance.amount by case 'amount', 'price'
AmountRange(safeMin, safeMax) == [min |-> safeMin, max |-> safeMax]

\* case 'amount', 'price' (192-208): faker.finance.amount draws with
\* faker.number.float and writes the symbol, the number and dec decimals
AmountTemplate(params) ==
  LET safeMin == SafeFloat(FloatParam(params, 1, 0), 0)
      safeMax == SafeFloat(FloatParam(params, 2, 1000), 1000)
      safeDec == SafeInt(IntParam(params, 3, 2), 0, 10, 2)
      symbol == IF HasParam(params, 4) THEN params[4] ELSE <<>>
      range == AmountRange(safeMin, safeMax)
  IN {IF IsThrow(v) THEN v
      ELSE TStr(symbol \o IntToString(v.n)
                \o (IF safeDec > 0 THEN <<".">> \o Repeat("0", safeDec) ELSE <<>>)) :
        v \in FakerFloat(range.min, range.max)}

\* cases with one length or count: parse, default, clamp
CountParam(params, lo, hi, default) == SafeInt(IntParam(params, 1, default), lo, hi, default)

\* case 'account-number' (186-191): the length is undefined unless it is a
\* non-zero number; faker's default length is 8
AccountNumberTemplate(params) ==
  LET length == IF HasParam(params, 1) THEN ParseInt(params[1]) ELSE Undefined
      safeLength == IF Truthy(length) /\ IsFinite(length) THEN Clamp(4, 20, length.n) ELSE 8
  IN {TStr(Repeat("7", safeLength))}

\* case 'age' (314-323)
AgeTemplate(params) ==
  LET safeMin == SafeInt(IntParam(params, 1, 18), 0, 120, 18)
      safeMax == SafeInt(IntParam(params, 2, 65), 0, 120, 65)
  IN NumberTexts(FakerInt(Min2(safeMin, safeMax), Max2(safeMin, safeMax)))

\* case 'rating' (503-508)
RatingTemplate(params) ==
  NumberTexts(FakerFloat(1, SafeInt(IntParam(params, 1, 5), 1, 10, 5)))

\* case 'tags' (495-501): between 1 and safeCount of the eight tags
TagsTemplate(params) ==
  {IF IsThrow(count) THEN count ELSE TStr(Words(Min2(count.n, 8))) :
     count \in FakerInt(1, CountParam(params, 1, 10, 3))}

\* case 'random' (164-169)
RandomTemplate(params) ==
  IF Len(params) > 0 THEN {TStr(param) : param \in FakerArrayElement(params)}
  ELSE {TStr(Repeat("7", 10))}

\* case 'boolean', 'bool' (578-580)
BooleanTemplate == {TStr(<<"true">>), TStr(<<"false">>)}

\* the names of the catalog whose generator reads no parameter
PlainNames ==
  {<<"uuid">>, <<"date">>, <<"datetime">>, <<"date", "-", "past">>,
   <<"date", "-", "future">>, <<"date", "-", "birthdate">>, <<"email">>, <<"name">>,
   <<"fullname">>, <<"firstname">>, <<"lastname">>, <<"username">>, <<"nickname">>,
   <<"nick">>, <<"password">>, <<"url">>, <<"ip">>, <<"ipv", "6">>, <<"phone">>,
   <<"address">>, <<"city">>, <<"country">>, <<"zipcode">>, <<"latitude">>,
   <<"longitude">>, <<"timestamp">>, <<"timestamp", "-", "ms">>,
   <<"timestamp", "-", "s">>, <<"creditcard">>, <<"credit", "-", "card">>, <<"cvv">>,
   <<"iban">>, <<"bic">>, <<"currency", "-", "code">>, <<"currency", "-", "name">>,
   <<"currency", "-", "symbol">>, <<"bitcoin", "-", "address">>,
   <<"ethereum", "-", "address">>, <<"product", "-", "name">>,
   <<"product", "-", "description">>, <<"product", "-", "material">>,
   <<"product", "-", "adjective">>, <<"department">>, <<"isbn", "-", "1", "0">>,
   <<"isbn", "-", "1", "3">>, <<"company", "-", "name">>, <<"company">>,
   <<"company", "-", "catchphrase">>, <<"company", "-", "buzzphrase">>, <<"word">>,
   <<"sentence">>, <<"paragraph">>, <<"text">>, <<"lorem">>, <<"image", "-", "url">>,
   <<"image">>, <<"avatar">>, <<"color">>, <<"color", "-", "hex">>,
   <<"color", "-", "rgb">>, <<"state">>, <<"state", "-", "abbr">>,
   <<"street", "-", "name">>, <<"building", "-", "number">>, <<"timezone">>,
   <<"country", "-", "code">>, <<"job", "-", "title">>, <<"job">>,
   <<"job", "-", "type">>, <<"bio">>, <<"gender">>, <<"sex">>,
   <<"middle", "-", "name">>, <<"prefix">>, <<"suffix">>, <<"domain">>,
   <<"domain", "-", "word">>, <<"user", "-", "agent">>, <<"mac", "-", "address">>,
   <<"port">>, <<"animal", "-", "type">>, <<"animal", "-", "dog">>,
   <<"animal", "-", "cat">>, <<"animal", "-", "bird">>, <<"hacker", "-", "phrase">>,
   <<"hacker", "-", "verb">>, <<"hacker", "-", "noun">>,
   <<"hacker", "-", "adjective">>, <<"hacker", "-", "abbreviation">>, <<"role">>,
   <<"permission">>, <<"order", "-", "id">>, <<"order", "_", "id">>,
   <<"order", "-", "number">>, <<"order">>, <<"invoice", "-", "id">>,
   <<"invoice", "_", "id">>, <<"invoice", "-", "number">>,
   <<"transaction", "-", "id">>, <<"transaction", "_", "id">>, <<"txn", "-", "id">>,
   <<"payment", "-", "id">>, <<"payment", "_", "id">>, <<"refund", "-", "id">>,
   <<"refund", "_", "id">>, <<"ticket", "-", "id">>, <<"ticket", "_", "id">>,
   <<"ticket", "-", "number">>, <<"booking", "-", "id">>, <<"booking", "_", "id">>,
   <<"reservation", "-", "id">>, <<"reservation", "_", "id">>,
   <<"subscription", "-", "id">>, <<"subscription", "_", "id">>,
   <<"session", "-", "id">>, <<"session", "_", "id">>, <<"token">>,
   <<"api", "-", "key">>, <<"api", "_", "key">>, <<"secret", "-", "key">>,
   <<"secret", "_", "key">>, <<"access", "-", "token">>, <<"access", "_", "token">>,
   <<"refresh", "-", "token">>, <<"refresh", "_", "token">>, <<"slug">>,
   <<"url", "-", "slug">>, <<"hash">>, <<"md", "5", "-", "hash">>,
   <<"sha", "2", "5", "6", "-", "hash">>, <<"status">>, <<"order", "-", "status">>,
   <<"payment", "-", "status">>, <<"user", "-", "status">>, <<"version">>,
   <<"semver">>, <<"category">>, <<"tag">>, <<"score">>, <<"percentage">>,
   <<"promo", "-", "code">>, <<"promocode">>, <<"coupon", "-", "code">>,
   <<"discount", "-", "code">>, <<"referral", "-", "code">>, <<"priority">>,
   <<"file", "-", "extension">>, <<"mime", "-", "type">>, <<"date", "-", "recent">>,
   <<"date", "-", "soon">>, <<"date", "-", "month">>, <<"date", "-", "weekday">>,
   <<"base", "6", "4">>}

\* the text of a generator that reads no parameter: one of two draws
PlainTemplate(name) == {TStr(<<"faker", ".">> \o name \o <<"#", draw>>) : draw \in {"1", "2"}}

\* default: (581-583): the placeholder of a name that is not in the catalog
UnknownTemplate(template) == TStr(<<"{", "{">> \o template \o <<"}", "}">>)

\* processTemplate(template): the strings it can return, or its exception
ProcessTemplate(template) ==
  LET parts == Split(template)
      trimmedName == ToLowerCase(Trim(parts[1]))
      params == Tail(parts)
  IN CASE trimmedName \in {<<"int">>, <<"integer">>} -> IntTemplate(params)
       [] trimmedName = <<"float">> -> FloatTemplate(params)
       [] trimmedName = <<"string">> ->
            {TStr(Repeat("7", CountParam(params, 1, 10000, 10)))}
       [] trimmedName = <<"random">> -> RandomTemplate(params)
       [] trimmedName = <<"account", "-", "number">> -> AccountNumberTemplate(params)
       [] trimmedName \in {<<"amount">>, <<"price">>} -> AmountTemplate(params)
       [] trimmedName = <<"words">> -> {TStr(Words(CountParam(params, 1, 100, 3)))}
       [] trimmedName = <<"sentences">> -> {TStr(Words(CountParam(params, 1, 20, 3)))}
       [] trimmedName = <<"paragraphs">> -> {TStr(Words(CountParam(params, 1, 10, 3)))}
       [] trimmedName = <<"age">> -> AgeTemplate(params)
       [] trimmedName = <<"tags">> -> TagsTemplate(params)
       [] trimmedName = <<"rating">> -> RatingTemplate(params)
       [] trimmedName \in {<<"alpha">>, <<"alphabetic">>} ->
            {TStr(Repeat("a", CountParam(params, 1, 10000, 10)))}
       [] trimmedName = <<"numeric">> ->
            {TStr(Repeat("7", CountParam(params, 1, 10000, 10)))}
       [] trimmedName = <<"hex">> ->
            {TStr(<<"0", "x">> \o Repeat("f", CountParam(params, 1, 10000, 32)))}
       [] trimmedName = <<"nanoid">> ->
            {TStr(Repeat("7", CountParam(params, 1, 100, 21)))}
       [] trimmedName \in {<<"boolean">>, <<"bool">>} -> BooleanTemplate
       [] trimmedName \in PlainNames -> PlainTemplate(trimmedName)
       [] OTHER -> {UnknownTemplate(template)}

\* the end of the match of /\{\{([^}]+)\}\}/ that starts at str[1], 0 when
\* there is none: "{{", one or more characters other than "}", then "}}"
MatchEnd(str) ==
  IF Len(str) >= 5 /\ str[1] = "{" /\ str[2] = "{"
  THEN LET j == IndexOf(str, {"}"}, 3)
       IN IF j > 3 /\ j < Len(str) /\ str[j + 1] = "}" THEN j + 1 ELSE 0
  ELSE 0

\* what the callback of str.replace gets as template (65)
TrimTemplate(template) == Trim(template)

\* head followed by rest, or the exception that came first
Concat(head, rest) ==
  IF IsThrow(head) THEN head ELSE IF IsThrow(rest) THEN rest ELSE TStr(head.c \o rest.c)

\* some part of str matches the regular expression
HasMatch(str) == \E i \in 1..Len(str) : MatchEnd(SubSeq(str, i, Len(str))) > 0

\* processString(str) (59-69): every match is replaced, left to right, by
\* what processTemplate returns for its trimmed content
RECURSIVE ProcessString(_), ProcessString_Rescan(_)
ProcessString_Rescan(str) ==
  IF str = <<>> THEN {TStr(<<>>)}
  ELSE LET end == MatchEnd(str)
       IN IF end = 0
          THEN {Concat(TStr(<<Head(str)>>), rest) : rest \in ProcessString_Rescan(Tail(str))}
          ELSE UNION {
            IF IsThrow(head) THEN {head}
            ELSE IF Len(head.c) >= end \/ HasMatch(head.c)
              THEN {Concat(head, rest) :
                      rest \in ProcessString_Rescan(SubSeq(str, end + 1, Len(str)))}
            ELSE ProcessString_Rescan(head.c \o SubSeq(str, end + 1, Len(str))) :
              head \in ProcessTemplate(TrimTemplate(SubSeq(str, 3, end - 2)))}
ProcessString(str) ==
  IF str = <<>> THEN {TStr(<<>>)}
  ELSE LET end == MatchEnd(str)
       IN IF end = 0
          THEN {Concat(TStr(<<Head(str)>>), rest) : rest \in ProcessString(Tail(str))}
          ELSE {Concat(head, rest) :
                  head \in ProcessTemplate(TrimTemplate(SubSeq(str, 3, end - 2))),
                  rest \in ProcessString(SubSeq(str, end + 1, Len(str)))}

\* result[processedKey] = value (599): the entry of an own key is replaced
\* in place, a new key is added last
Assign(result, key, value) ==
  IF \E i \in 1..Len(result.e) : result.e[i].key = key
  THEN TMap([i \in 1..Len(result.e) |->
               IF result.e[i].key = key THEN Entry(key, value) ELSE result.e[i]])
  ELSE TMap(Append(result.e, Entry(key, value)))

RECURSIVE Process(_), ProcessEntries(_, _), ProcessItems(_, _)
\* process(data) (37-52): the values it can return, or its exception
Process(data) ==
  CASE data.k = "string" -> ProcessString(data.c)
    [] data.k = "object" -> ProcessEntries(data.e, Len(data.e))
    [] data.k = "array" -> ProcessItems(data.a, Len(data.a))
    [] OTHER -> {data}

\* processObject (592-602), after the first n entries of Object.entries
ProcessEntries(entries, n) ==
  IF n = 0 THEN {TMap(<<>>)}
  ELSE UNION {
    IF IsThrow(result) THEN {result}
    ELSE UNION {
      IF IsThrow(processedKey) THEN {processedKey}
      ELSE {IF IsThrow(value) THEN value ELSE Assign(result, processedKey.c, value) :
              value \in Process(entries[n].val)} :
        processedKey \in ProcessString(entries[n].key)} :
      result \in ProcessEntries(entries, n - 1)}

\* processArray (609-612), after the first n items of arr.map
ProcessItems(items, n) ==
  IF n = 0 THEN {Arr(<<>>)}
  ELSE UNION {
    IF IsThrow(result) THEN {result}
    ELSE {IF IsThrow(value) THEN value ELSE Arr(Append(result.a, value)) :
            value \in Process(items[n])} :
      result \in ProcessItems(items, n - 1)}

(***************************************************************************)
(* The data handed to process.                                             *)
(***************************************************************************)
\* "{{" content "}}"
Placeholder(content) == <<"{", "{">> \o content \o <<"}", "}">>

\* segments joined with ":"
RECURSIVE Join(_)
Join(segments) ==
  IF Len(segments) = 1 THEN segments[1]
  ELSE segments[1] \o <<":">> \o Join(Tail(segments))

\* the catalog names whose generator reads numeric arguments
NumericNames ==
  {<<"int">>, <<"float">>, <<"string">>, <<"age">>, <<"amount">>, <<"price">>,
   <<"rating">>, <<"words">>, <<"sentences">>, <<"paragraphs">>, <<"tags">>,
   <<"account", "-", "number">>, <<"alpha">>, <<"numeric">>, <<"hex">>, <<"nanoid">>}

\* argument texts: none, numbers, a negative number, text that is no number,
\* a number after white space, a number followed by text, white space alone
ArgTexts ==
  {<<>>, <<"0">>, <<"5">>, <<"1">>, <<"-", "3">>, <<"x">>, <<" ", "7">>, <<"1", "2", "x">>,
   <<"2", "0", "0", "0">>, <<" ">>}

ArgLists == {<<>>} \cup {<<a>> : a \in ArgTexts} \cup {<<a, b>> : a, b \in ArgTexts}

\* {{int:a:b}} in both spellings, with arguments outside the 32-bit range
IntNames == {<<"int">>, <<"integer">>, <<"INT">>}
IntArgTexts ==
  ArgTexts \cup {<<"9", "9", "9", "9", "9", "9", "9", "9", "9", "9", "9">>,
                 <<"-", "9", "9", "9", "9", "9", "9", "9", "9", "9", "9", "9">>,
                 <<"-", "2", "1", "4", "7", "4", "8", "3", "6", "4", "8">>}
IntArgLists ==
  {<<>>} \cup {<<a>> : a \in IntArgTexts} \cup {<<a, b>> : a, b \in IntArgTexts}
    \cup {<<<<"5">>, <<"5">>, <<"9">>>>}
IntPlaceholders ==
  {Placeholder(Join(<<name>> \o args)) : name \in IntNames, args \in IntArgLists}

NumericPlaceholders ==
  {Placeholder(Join(<<name>> \o args)) : name \in NumericNames, args \in ArgLists}

\* {{string:n}}, {{alpha:n}}, {{numeric:n}} with lengths above the limit
LengthNames == {<<"string">>, <<"alpha">>, <<"numeric">>}
LongArgLists == {<<<<"1", "0", "0", "0", "1">>>>, <<<<"2", "0", "0", "0", "0">>, <<"5">>>>}
LengthPlaceholders ==
  {Placeholder(Join(<<name>> \o args)) : name \in LengthNames, args \in LongArgLists}

\* names that are not in the catalog, in several casings
UnknownNames ==
  {<<"x">>, <<"XYZ">>, <<"Unknown">>, <<"unknown", "-", "template", "-", "xyz">>,
   <<"uuid", "2">>}
Spaces == {<<>>, <<" ">>, <<" ", " ">>}

\* placeholders of unknown names, with white space around the name and with
\* arguments
UnknownPlaceholders ==
  {Placeholder(before \o name \o after \o args) :
     before \in Spaces, name \in UnknownNames, after \in Spaces,
     args \in {<<>>, <<":", "5">>, <<":", " ", "a", ":">>}}

\* strings: placeholders alone, within text, one after the other
TemplateStrings ==
  NumericPlaceholders \cup IntPlaceholders \cup UnknownPlaceholders \cup LengthPlaceholders
  \cup {Placeholder(name) : name \in {<<"uuid">>, <<"Uuid">>, <<"bool">>, <<"boolean">>,
                                      <<"random", ":", "a", ":", "b">>, <<"random">>,
                                      <<"INT", ":", "5", ":", "5">>}}
  \cup {<<>>, <<"a">>, <<"5">>, <<"true">>, <<"{", "{", "}", "}">>, <<"{", "{", "x", "}">>,
        <<"{", "{", "{", "x", "}", "}", "}">>,
        <<"id", "-">> \o Placeholder(<<"uuid">>),
        Placeholder(<<"x">>) \o Placeholder(<<" ", "x", " ">>),
        Placeholder(<<"bool">>) \o <<" ">> \o Placeholder(<<"amount", ":", "5", ":", "1">>)}

\* keys and values of the mappings and the items of the sequences
KeyTexts ==
  {<<"a">>, <<"b">>, <<"5">>, <<"true">>, Placeholder(<<"x">>), Placeholder(<<" ", "x", " ">>),
   Placeholder(<<"bool">>), Placeholder(<<"boolean">>), Placeholder(<<"uuid">>),
   Placeholder(<<"int", ":", "5", ":", "5">>)}
LeafValues ==
  {Num(1), Bool(TRUE), Null, TStr(<<"a">>), TStr(Placeholder(<<"uuid">>)),
   TStr(Placeholder(<<"bool">>)), TStr(Placeholder(<<"x">>)),
   TStr(Placeholder(<<"amount", ":", "5", ":", "1">>))}

\* { a: "{{uuid}}", b: [1, "{{bool}}"] }
ExampleMapping ==
  TMap(<<Entry(<<"a">>, TStr(Placeholder(<<"uuid">>))),
         Entry(<<"b">>, Arr(<<Num(1), TStr(Placeholder(<<"bool">>))>>))>>)

TemplateSequences ==
  {Arr(<<>>)} \cup {Arr(<<v>>) : v \in LeafValues} \cup {Arr(<<v, w>>) : v, w \in LeafValues}
  \cup {Arr(<<ExampleMapping, Num(1)>>), Arr(<<Arr(<<TStr(Placeholder(<<"bool">>))>>)>>)}

\* two different keys
KeyPairs == {pair \in KeyTexts \X KeyTexts : pair[1] # pair[2]}
TwoEntries(pair, v, w) == TMap(<<Entry(pair[1], v), Entry(pair[2], w)>>)

\* mappings of up to two entries with different keys, alone and nested
TemplateMappings ==
  {TMap(<<>>), ExampleMapping}
  \cup {TMap(<<Entry(key, v)>>) : key \in KeyTexts, v \in LeafValues}
  \cup {TwoEntries(pair, Num(1), v) :
          pair \in KeyPairs, v \in {Num(2), TStr(Placeholder(<<"bool">>))}}
  \cup {TMap(<<Entry(<<"a">>, TwoEntries(pair, Num(1), Num(2)))>>) : pair \in KeyPairs}
  \cup {Arr(<<TwoEntries(pair, Num(1), Num(2))>>) : pair \in KeyPairs}

\* strings around one placeholder: {{random:text}} returns text, which may
\* form a placeholder with what follows it; the other generators are fixed
\* by their name
GivenTexts == {<<"a">>, <<"{", "{", "uuid">>, <<"{", "{", "bool">>, <<"{", "{", "x">>, <<"{">>}
FixedTemplates == {<<"bool">>, <<"int", ":", "5", ":", "5">>, <<"x", ":", "y">>}
TextsBefore == {<<>>, <<"a">>, <<"{", "a">>, <<"}", "}">>}
TextsAfter == {<<>>, <<"b">>, <<"}", "}">>, <<"}">>, <<"{", "{">>}
Around(before, content, after) == before \o Placeholder(content) \o after
SinglePassStrings ==
  {Around(before, <<"random", ":">> \o text, after) :
     before \in TextsBefore, text \in GivenTexts, after \in TextsAfter}
  \cup {Around(before, content, after) :
          before \in TextsBefore, content \in FixedTemplates, after \in TextsAfter}

TemplateInputs ==
  {TStr(str) : str \in TemplateStrings \cup SinglePassStrings}
  \cup {Num(1), Num(0), Bool(TRUE), Bool(FALSE), Null}
  \cup TemplateSequences \cup TemplateMappings

(***************************************************************************)
(* TemplateEngine as a state machine: one call of process(tInput).         *)
(***************************************************************************)
\* a run of the template engine leaves DataGenerator alone
GeneratorIdle ==
  /\ gMode = "idle"
  /\ gSpec = Undefined
  /\ gSchema = Undefined
  /\ gVisited = {}
  /\ gVisited0 = {}
  /\ gPhase = "idle"
  /\ gResult = Undefined
  /\ rStack = <<>>
  /\ rRet = NoReturn

InitTpl ==
  /\ GeneratorIdle
  /\ ServerIdle
  /\ HeapIdle
  /\ QueueIdle
  /\ MonitorIdle
  /\ tInput \in TemplateInputs
  /\ tPhase = "ready"
  /\ tResult = Undefined

\* the call process(tInput)
ProcessCall ==
  /\ tPhase = "ready"
  /\ \E result \in Process(tInput) : tResult' = result
  /\ tPhase' = "done"
  /\ UNCHANGED <<tInput, genVars, srvVars, heapVars, queueVars, monVars>>

NextTpl == ProcessCall
SpecTpl == InitTpl /\ [][NextTpl]_vars

(***************************************************************************)
(* Claims about TemplateEngine, checked under SpecTpl.                     *)
(***************************************************************************)
ProcessDone == tPhase = "done"

\* C4: process never raises for a catalog name that takes numeric
\* arguments, whatever the argument list (text that is no number, negative
\* numbers, min above max, only min given above the default max): the
\* placeholder is replaced by a string.
C4_NumericArgumentsNeverRaise ==
  (ProcessDone /\ tInput \in {TStr(str) : str \in NumericPlaceholders}) =>
    tResult.k = "string"

\* strings made only of placeholders of names that are not in the catalog
UnknownOnlyStrings ==
  UnknownPlaceholders \cup {Placeholder(<<"x">>) \o Placeholder(<<" ", "x", " ">>)}

\* C5: a placeholder whose name is not in the catalog is returned character
\* for character (casing, arguments, white space between the braces), so a
\* string made only of such placeholders is returned equal to the input.
C5_UnknownPlaceholderUnchanged ==
  (ProcessDone /\ tInput \in {TStr(str) : str \in UnknownOnlyStrings}) =>
    tResult = tInput

\* every mapping in result has as many entries as the mapping at the same
\* place in data
RECURSIVE EntriesPreserved(_, _)
EntriesPreserved(data, result) ==
  CASE data.k = "object" ->
         /\ result.k = "object"
         /\ Len(result.e) = Len(data.e)
         /\ \A i \in 1..Len(data.e) : EntriesPreserved(data.e[i].val, result.e[i].val)
    [] data.k = "array" ->
         /\ result.k = "array"
         /\ Len(result.a) = Len(data.a)
         /\ \A i \in 1..Len(data.a) : EntriesPreserved(data.a[i], result.a[i])
    [] OTHER -> TRUE

\* no key of a mapping in data has white space in it
RECURSIVE KeysWithoutSpace(_)
KeysWithoutSpace(data) ==
  CASE data.k = "object" ->
         \A i \in 1..Len(data.e) :
           /\ IndexOf(data.e[i].key, {" "}, 1) = 0
           /\ KeysWithoutSpace(data.e[i].val)
    [] data.k = "array" -> \A i \in 1..Len(data.a) : KeysWithoutSpace(data.a[i])
    [] OTHER -> TRUE

\* C8: process on a mapping, also one nested in sequences or mappings,
\* returns a mapping with exactly as many entries as the input, one per
\* input entry, also when keys contain placeholders.  Stated for the calls
\* that return and for keys without white space.
C8_MappingKeepsEntries ==
  (ProcessDone /\ tInput.k \in {"object", "array"} /\ ~IsThrow(tResult)
     /\ KeysWithoutSpace(tInput)) =>
    EntriesPreserved(tInput, tResult)

\* C9: process on a sequence returns a sequence of the same length whose
\* i-th element is process of the i-th input element; a number, a boolean
\* and null are returned unchanged; { a: "{{uuid}}", b: [1, "{{bool}}"] }
\* yields a mapping with the keys a and b where b is [1, "true" or "false"].
C9_SequenceElementwise ==
  ProcessDone =>
    /\ tInput.k = "array" =>
         /\ tResult.k = "array"
         /\ Len(tResult.a) = Len(tInput.a)
         /\ \A i \in 1..Len(tInput.a) : tResult.a[i] \in Process(tInput.a[i])
    /\ tInput.k \in {"number", "boolean", "null"} => tResult = tInput
    /\ tInput = ExampleMapping =>
         /\ tResult.k = "object"
         /\ {tResult.e[i].key : i \in 1..Len(tResult.e)} = {<<"a">>, <<"b">>}
         /\ \E i \in 1..Len(tResult.e) :
              /\ tResult.e[i].key = <<"b">>
              /\ tResult.e[i].val \in {Arr(<<Num(1), text>>) : text \in BooleanTemplate}

(***************************************************************************)
(* Further claims about DataGenerator, checked under SpecGen.              *)
(***************************************************************************)
\* integer schemas without multipleOf whose range, with the defaults 0 and
\* 1000 for an absent bound, is not empty
IntegerRangeSchema(schema) ==
  /\ schema \in NumberSchemas
  /\ Prop(schema, "type") = Str("integer")
  /\ Prop(schema, "multipleOf") = Undefined
  /\ Nullish(Prop(schema, "minimum"), Num(0)).n <= Nullish(Prop(schema, "maximum"), Num(1000)).n

\* C11: for every integer schema without multipleOf and with
\* minimum <= maximum (absent minimum is 0, absent maximum is 1000, an
\* explicit 0 is used), the generated value is an integer in
\* [minimum, maximum]; with minimum = maximum = 5 it is 5.
C11_IntegerInRange ==
  (GenerateDone /\ IntegerRangeSchema(gSchema)) =>
    /\ gResult.k = "number"
    /\ gResult.n >= Nullish(Prop(gSchema, "minimum"), Num(0)).n
    /\ gResult.n <= Nullish(Prop(gSchema, "maximum"), Num(1000)).n
    /\ (gSchema = FiveSchema => gResult = Num(5))

\* an integer schema with the explicit maximum 0 has generated 0
C11_Witness ==
  /\ GenerateDone
  /\ IntegerRangeSchema(gSchema)
  /\ Prop(gSchema, "maximum") = Num(0)
  /\ gResult = Num(0)

\* the names declared in properties of an object schema
DeclaredKeys(schema) == DOMAIN OrElse(Prop(schema, "properties"), EmptyObj).f
\* the values generateFromSchema can return for the schema of property key
PropertyValues(schema, key) ==
  {o.val : o \in GenerateFromSchema(gSpec, Prop(schema, "properties").f[key], {}, 1)}

\* result is a mapping that holds every declared and required property of
\* schema with a value of its property schema, and whose keys are declared
\* names or, when additionalProperties is set, additional_ keys
ObjectOf(schema, result) ==
  /\ result.k = "object"
  /\ \A key \in DeclaredKeys(schema) :
       Str(key) \in Elements(OrElse(Prop(schema, "required"), Arr(<<>>))) =>
         key \in DOMAIN result.f
  /\ \A key \in DOMAIN result.f :
       \/ key \in DeclaredKeys(schema) /\ result.f[key] \in PropertyValues(schema, key)
       \/ key \in AdditionalKeys /\ key \notin DeclaredKeys(schema)
            /\ Truthy(Prop(schema, "additionalProperties"))

\* C12: for every object schema the generated mapping holds each declared
\* and required property with a value generated from its property schema,
\* a declared property that is not required is present or absent, and every
\* key is a declared name or an additional_<8 alphanumerics> key, the
\* latter only when additionalProperties is set.
C12_ObjectProperties ==
  (GenerateDone /\ gSchema \in ObjectSchemas) => ObjectOf(gSchema, gResult)

\* C12, for the calls that return: the same, where no property schema made
\* the call raise
C12_ObjectPropertiesWhenReturned ==
  (GenerateDone /\ gSchema \in ObjectSchemas /\ ~IsThrow(gResult)) =>
    ObjectOf(gSchema, gResult)

\* a mapping with the required id, without the optional n, and with an
\* additional key
C12_Witness ==
  /\ GenerateDone
  /\ gSchema \in ObjectSchemas
  /\ DeclaredKeys(gSchema) = {"id", "n"}
  /\ Prop(gSchema, "required") = Arr(<<Str("id")>>)
  /\ gResult.k = "object"
  /\ "id" \in DOMAIN gResult.f
  /\ "n" \notin DOMAIN gResult.f
  /\ DOMAIN gResult.f \cap AdditionalKeys # {}

\* a declared property that is not required is generated in one run and
\* left out in another
C12_OptionalPresent ==
  /\ GenerateDone
  /\ gSchema \in ObjectSchemas
  /\ DeclaredKeys(gSchema) = {"id", "n"}
  /\ Prop(gSchema, "required") = Arr(<<Str("id")>>)
  /\ gResult.k = "object"
  /\ "n" \in DOMAIN gResult.f

\* the schema nodes of the model without $ref, oneOf, anyOf and allOf
NodesWithoutComposition ==
  PlainSchemas \cup ArraySchemas \cup NumberSchemas \cup StringSchemas \cup ObjectSchemas
\* null, boolean, number, string, sequence, mapping
ValueShapes == {"null", "boolean", "number", "string", "array", "object"}
RecognizedTypes ==
  {Str("string"), Str("number"), Str("integer"), Str("boolean"), Str("array"), Str("object")}

\* result is what the claim allows for schema: one of the six shapes; null
\* for a schema that is absent, has the type "null" or has a type that is
\* not recognized; a string, or a value of enum, for a node without type
ShapeOf(schema, result) ==
  /\ result.k \in ValueShapes
  /\ schema \in {Undefined, Null} => result = Null
  /\ (Truthy(Prop(schema, "type")) /\ Prop(schema, "type") \notin RecognizedTypes) =>
       result = Null
  /\ (Truthy(schema) /\ Prop(schema, "type") = Undefined) =>
       \/ result.k = "string"
       \/ NonEmptyList(Prop(schema, "enum")) /\ result \in Elements(Prop(schema, "enum"))

\* C13: for every schema node without $ref, oneOf, anyOf and allOf,
\* generateFromSchema returns one of the six value shapes and never
\* undefined: an absent schema, the type "null" and an unrecognized type
\* give null, and a node without type is generated as a string.
C13_ValueShapes ==
  (GenerateDone /\ gSchema \in NodesWithoutComposition) => ShapeOf(gSchema, gResult)

\* C13, for the calls that return
C13_ValueShapesWhenReturned ==
  (GenerateDone /\ gSchema \in NodesWithoutComposition /\ ~IsThrow(gResult)) =>
    ShapeOf(gSchema, gResult)

\* a node without type that only declares properties has generated a string
C13_Witness ==
  /\ GenerateDone
  /\ gSchema = Obj([properties |-> Obj([id |-> BooleanSchema])])
  /\ gResult.k = "string"

\* an absent schema and a node of an unknown type have generated null
C13_NullReached ==
  /\ GenerateDone
  /\ gSchema \in {Undefined, Obj([type |-> Str("file")])}
  /\ gResult = Null

\* the end of a chain of references as the document defines it: ref leads by
\* key lookup to a schema node; a node without $ref ends the chain, the
\* $ref of any other node continues it; seen holds the references passed
RECURSIVE ChainEnd(_, _, _)
ChainEnd(spec, ref, seen) ==
  IF ref \in seen \/ ~IsString(ref) THEN [ok |-> FALSE, node |-> Null, length |-> 0]
  ELSE LET w == Walk(spec, RefParts(ref.t)) IN
    IF ~w.found \/ w.node.k # "object" THEN [ok |-> FALSE, node |-> Null, length |-> 0]
    ELSE IF Prop(w.node, "$ref") # Undefined
      THEN ChainEnd(spec, Prop(w.node, "$ref"), seen \cup {ref})
    ELSE [ok |-> TRUE, node |-> w.node, length |-> Cardinality(seen) + 1]

\* the run started from a reference that heads an acyclic chain, with an
\* empty visitedRefs
ChainOfRun == IF Truthy(gSpec) THEN ChainEnd(gSpec, TopRef, {})
              ELSE [ok |-> FALSE, node |-> Null, length |-> 0]
ChainRunDone == gPhase = "done" /\ gVisited0 = {} /\ ChainOfRun.ok

\* the values a generation can return
ValuesOf(outcomes) == {o.val : o \in outcomes}

\* generation from the node that ends the chain of the run, called as line
\* 231 calls it: with an empty visitedRefs, one frame above the top-level call
FromChainEnd == ValuesOf(GenerateFromSchema(gSpec, ChainOfRun.node, {}, 2))

\* C17: for an acyclic chain of references that ends at a node without
\* $ref, resolveRef of the first reference returns that node, and the
\* values generated from {$ref: first} are those generated from that node
C17_ChainResolvesToLastNode ==
  ChainRunDone =>
    IF gMode = "resolveRef" THEN gResult = ChainOfRun.node
    ELSE /\ ValuesOf(GenerateFromSchema(gSpec, gSchema, {}, 1)) = FromChainEnd
         /\ gResult \in FromChainEnd
C17_Witness ==
  /\ ChainRunDone
  /\ ChainOfRun.length = 3
  /\ gMode = "resolveRef"
  /\ gResult = IdObject
C17_GeneratedThroughChain ==
  /\ ChainRunDone
  /\ ChainOfRun.length = 3
  /\ gMode = "generate"
  /\ gResult = Obj([id |-> Bool(TRUE)])

\* the keywords generateFromSchema dispatches on
DispatchKeywords == {"$ref", "oneOf", "anyOf", "allOf", "type"}
\* the keyword holds a list with at least one member
Listed(schema, keyword) ==
  Prop(schema, keyword) # Undefined /\ Prop(schema, keyword) # Arr(<<>>)
\* the values the members of the list of a keyword can generate
MemberValues(schema, keyword) ==
  UNION {ValuesOf(GenerateFromSchema(gSpec, member, gVisited0, 2)) :
           member \in Elements(Prop(schema, keyword))}
\* the values the run can generate, and those a node holding nothing but
\* one keyword of its schema can
RunValues == ValuesOf(GenerateFromSchema(gSpec, gSchema, gVisited0, 1))
AloneValues(keyword) ==
  ValuesOf(GenerateFromSchema(gSpec, Obj(Opt(keyword, Prop(gSchema, keyword))), gVisited0, 1))
\* the run generated from a node with a reference next to other keywords,
\* or from a node that holds oneOf, anyOf or allOf and dispatch keywords only
DispatchRun ==
  /\ GenerateDone
  /\ gSchema.k = "object"
  /\ IF "$ref" \in DOMAIN gSchema.f THEN DOMAIN gSchema.f # {"$ref"}
     ELSE /\ DOMAIN gSchema.f \subseteq DispatchKeywords
          /\ DOMAIN gSchema.f \cap {"oneOf", "anyOf", "allOf"} # {}

\* C20: a node with $ref generates what the node with that $ref alone
\* generates; otherwise a non-empty oneOf decides, then a non-empty anyOf,
\* then a non-empty allOf, then type; with oneOf or anyOf the value is one
\* that a listed member can generate
C20_DispatchPriority ==
  DispatchRun =>
    /\ gResult \in RunValues
    /\ IF Prop(gSchema, "$ref") # Undefined THEN RunValues = AloneValues("$ref")
       ELSE IF Listed(gSchema, "oneOf") THEN RunValues = MemberValues(gSchema, "oneOf")
       ELSE IF Listed(gSchema, "anyOf") THEN RunValues = MemberValues(gSchema, "anyOf")
       ELSE IF Listed(gSchema, "allOf") THEN RunValues = AloneValues("allOf")
       ELSE RunValues = AloneValues("type")
C20_Witness ==
  /\ DispatchRun
  /\ DOMAIN gSchema.f = {"oneOf", "anyOf", "allOf", "type"}
  /\ Prop(gSchema, "oneOf") = Arr(<<FiveSchema, IdObject>>)
  /\ Listed(gSchema, "anyOf")
  /\ Listed(gSchema, "allOf")
  /\ gResult = Num(5)
C20_SiblingsIgnored ==
  /\ DispatchRun
  /\ Prop(gSchema, "$ref") = RefTo("C")
  /\ Prop(gSchema, "type") = Str("null")
  /\ gResult = Obj([id |-> Bool(TRUE)])

(***************************************************************************)
(* Further claims about TemplateEngine, checked under SpecTpl.             *)
(***************************************************************************)
\* the bound the claim gives for the i-th argument: the argument parsed as
\* an integer and clamped to Int32Min..Int32Max, default when the argument
\* is missing or no number
IntBound(args, i, default) ==
  IF i > Len(args) \/ args[i] = <<>> \/ ParseInt(args[i]) = NaN THEN default
  ELSE Clamp(Int32Min, Int32Max, ParseInt(args[i]).n)

\* text is the decimal text of an integer in lo..hi
DecimalBetween(text, lo, hi) ==
  /\ ParseInt(text) # NaN
  /\ IntToString(ParseInt(text).n) = text
  /\ lo <= ParseInt(text).n
  /\ ParseInt(text).n <= hi

\* C14: {{int:a:b}} and {{integer:a:b}} are replaced by the decimal text of
\* an integer n with min(a', b') <= n <= max(a', b'), a' and b' being the
\* arguments parsed as integers, 0 and 1000 when missing or not numeric,
\* clamped to [-2147483648, 2147483647]; {{int:5:5}} gives "5".
C14_IntInRange ==
  ProcessDone =>
    /\ \A name \in IntNames, args \in IntArgLists :
         tInput = TStr(Placeholder(Join(<<name>> \o args))) =>
           LET a == IntBound(args, 1, 0)
               b == IntBound(args, 2, 1000)
           IN /\ tResult.k = "string"
              /\ DecimalBetween(tResult.c, IF a < b THEN a ELSE b, IF a < b THEN b ELSE a)
    /\ tInput = TStr(Placeholder(<<"int", ":", "5", ":", "5">>)) => tResult = TStr(<<"5">>)

\* {{int:5:-3}}, with min above max, has given a number from -3 to 5
C14_Witness ==
  /\ ProcessDone
  /\ tInput = TStr(Placeholder(<<"int", ":", "5", ":", "-", "3">>))
  /\ tResult = TStr(<<"-", "2">>)

(***************************************************************************)
(* MockServer (mock-server.ts), the settings routes of setupUIRoutes, the  *)
(* SettingsManager and the RequestQueue (request-queue.ts).                *)
(*                                                                         *)
(* Methods are whole strings; a path and an endpoint key are token         *)
(* sequences like the strings of the template engine ("GET:/users" is      *)
(* <<"GET", ":", "/", "users">>).  An EndpointConfig is an object with the *)
(* fields that were given.                                                 *)
(***************************************************************************)
\* how many requests to mocked endpoints a run lets arrive
MaxRequests == 2
\* new RequestQueue(): maxSize = 10
QueueMaxSize == 10

\* `${method}:${path}`
EndpointKey(method, path) == <<method, ":">> \o path

\* the endpoints parsed from the document: GET /users with a response
\* schema, POST /users/:id without one
UsersPath == <<"/", "users">>
UserPath == <<"/", "users", "/", ":", "id">>
ParsedEndpoints ==
  <<[method |-> "GET", path |-> UsersPath, responseSchema |-> BooleanSchema],
    [method |-> "POST", path |-> UserPath, responseSchema |-> Undefined]>>
UsersKey == EndpointKey("GET", UsersPath)
UserKey == EndpointKey("POST", UserPath)
EndpointOf(key) ==
  CHOOSE endpoint \in Elements(Arr(ParsedEndpoints)) :
    EndpointKey(endpoint.method, endpoint.path) = key

\* custom responses with placeholders
OkResponse == TMap(<<Entry(<<"ok">>, TStr(Placeholder(<<"bool">>)))>>)
ListResponse == Arr(<<TStr(Placeholder(<<"int", ":", "5", ":", "5">>))>>)

\* the entry registerEndpoint adds for an endpoint without one (137-142)
DefaultConfig(endpoint) ==
  Obj([path |-> TStr(endpoint.path), method |-> Str(endpoint.method),
       delay |-> Num(0), statusCode |-> Num(200)])

\* Map.set(key, value)
MapSet(map, key, value) == (key :> value) @@ map

\* config.endpoints as the caller hands it to the constructor: empty, or
\* with entries for GET /users
InitialConfigs ==
  {<<>>,
   MapSet(<<>>, UsersKey, Obj([queueEnabled |-> Bool(TRUE)])),
   MapSet(<<>>, UsersKey, Obj([statusCode |-> Num(201), delay |-> Num(100),
                              queueEnabled |-> Bool(FALSE)]))}

\* registerEndpoint for the first n endpoints: config.endpoints afterwards
RECURSIVE RegisteredConfig(_, _)
RegisteredConfig(config, n) ==
  IF n = 0 THEN config
  ELSE LET before == RegisteredConfig(config, n - 1)
           endpoint == ParsedEndpoints[n]
           endpointKey == EndpointKey(endpoint.method, endpoint.path)
       IN IF endpointKey \in DOMAIN before THEN before
          ELSE MapSet(before, endpointKey, DefaultConfig(endpoint))

\* the route registerEndpoint adds (145-182): the handler closes over the
\* config object of that moment, and the route goes through the queue when
\* that object has queueEnabled
RouteOf(config) == [config |-> config, queued |-> Truthy(Prop(config, "queueEnabled"))]

\* sanitizeString on the method texts of the model, toUpperCase
SanitizeString(str) == IF str = "<get>" THEN "get" ELSE str
ToUpperCase(str) ==
  CASE str = "get" -> "GET" [] str = "post" -> "POST" [] str = "fetch" -> "FETCH"
    [] OTHER -> str
IsValidHttpMethod(method) ==
  ToUpperCase(method) \in {"GET", "POST", "PUT", "DELETE", "PATCH", "HEAD", "OPTIONS"}
\* a non-empty string that starts with "/" (the paths of the model have
\* none of < > ' " & and are short)
IsValidEndpointPath(endpointPath) == endpointPath # <<>> /\ Head(endpointPath) = "/"
IsValidDelay(delay) == IsFinite(delay) /\ delay.n >= 0 /\ delay.n <= 60000
IsValidStatusCode(statusCode) ==
  IsFinite(statusCode) /\ statusCode.n >= 100 /\ statusCode.n <= 599

\* the request bodies of PUT /api/endpoints/:method/:path: all settings,
\* single settings, nothing, and values the handler rejects
PutBodies ==
  {Obj([delay |-> Num(250), statusCode |-> Num(404), customResponse |-> OkResponse]),
   Obj([statusCode |-> Num(404), customResponse |-> ListResponse,
        queueEnabled |-> Bool(TRUE), queueSize |-> Num(5)]),
   Obj([queueEnabled |-> Bool(FALSE)]),
   EmptyObj,
   Obj([delay |-> Num(0 - 1)]), Obj([statusCode |-> Num(99)]),
   Obj([customResponse |-> Str("text")]), Obj([customResponse |-> Null]),
   Obj([queueEnabled |-> Str("yes")]), Obj([queueSize |-> Num(0)])}
PutMethods == {"GET", "get", "<get>", "fetch"}
PutPaths == {UsersPath, UserPath, <<"users">>}

\* the first check of the handler that the body fails (170-217)
PutRejects(body) ==
  LET delay == Prop(body, "delay")
      statusCode == Prop(body, "statusCode")
      customResponse == Prop(body, "customResponse")
      queueEnabled == Prop(body, "queueEnabled")
      queueSize == Prop(body, "queueSize")
  IN \/ delay # Undefined /\ ~IsValidDelay(delay)
     \/ statusCode # Undefined /\ ~IsValidStatusCode(statusCode)
     \/ customResponse # Undefined /\ customResponse.k \notin {"object", "array"}
     \/ queueEnabled # Undefined /\ queueEnabled.k # "boolean"
     \/ queueSize # Undefined /\ ~(IsFinite(queueSize) /\ queueSize.n >= 1 /\ queueSize.n <= 100)

PutConfig_Delay(body) == Obj(Opt("delay", Prop(body, "delay")))
\* the EndpointConfig the handler builds from a body it accepts
PutConfig(body) ==
  Obj(Opt("delay", Prop(body, "delay")) @@ Opt("statusCode", Prop(body, "statusCode"))
      @@ Opt("customResponse", Prop(body, "customResponse"))
      @@ Opt("queueEnabled", Prop(body, "queueEnabled"))
      @@ Opt("queueSize", Prop(body, "queueSize")))

\* generateResponse(endpoint, config) (191-208): the bodies, or an exception
GenerateResponse(endpoint, config) ==
  IF Truthy(Prop(config, "customResponse")) THEN Process(Prop(config, "customResponse"))
  ELSE IF Truthy(endpoint.responseSchema)
    THEN {o.val : o \in GenerateFromSchema(Undefined, endpoint.responseSchema, {}, 1)}
  ELSE {EmptyObj}

\* the handler of a route (148-170): the delay it waits, then the status
\* and the body it sends
HandlerResponses(endpoint, config) ==
  LET delay == IF Truthy(Prop(config, "delay")) THEN Prop(config, "delay").n ELSE 0
  IN {IF IsThrow(response)
      THEN [delay |-> delay, status |-> 500, body |-> Str("Internal server error")]
      ELSE [delay |-> delay, status |-> OrElse(Prop(config, "statusCode"), Num(200)).n,
            body |-> response] :
        response \in GenerateResponse(endpoint, config)}

(***************************************************************************)
(* MockServer as a state machine.                                          *)
(***************************************************************************)
InitSrv ==
  /\ GeneratorIdle
  /\ TemplateIdle
  /\ HeapIdle
  /\ QueueIdle
  /\ MonitorIdle
  /\ sPhase = "constructed"
  /\ sConfig \in InitialConfigs
  /\ sRoutes = <<>>
  /\ sQueue = <<>>
  /\ sProcessing = FALSE
  /\ sActive = {}
  /\ sSaved = {}
  /\ sArrived = 0
  /\ sLast = NoResponse

\* registerEndpoints(ParsedEndpoints) (116-125)
RegisterEndpoints ==
  /\ sPhase = "constructed"
  /\ sPhase' = "running"
  /\ sConfig' = RegisteredConfig(sConfig, Len(ParsedEndpoints))
  /\ sRoutes' = [key \in {EndpointKey(e.method, e.path) : e \in Elements(Arr(ParsedEndpoints))}
                   |-> RouteOf(sConfig'[key])]
  /\ UNCHANGED <<sQueue, sProcessing, sActive, sSaved, sArrived, sLast, genVars, tplVars, heapVars, queueVars, monVars>>

\* PUT /api/endpoints/:method/:path (part_003 142-228) with
\* SettingsManager.saveEndpointConfig (request-queue.ts 131-138)
PutEndpoint ==
  /\ sPhase = "running"
  /\ \E rawMethod \in PutMethods, endpointPath \in PutPaths, body \in PutBodies :
       LET method == SanitizeString(rawMethod)
           endpointKey == EndpointKey(ToUpperCase(method), endpointPath)
       IN IF ~IsValidHttpMethod(method) \/ ~IsValidEndpointPath(endpointPath)
             \/ PutRejects(body)
          THEN /\ sLast' = [kind |-> "put", status |-> 400]
               /\ UNCHANGED <<sConfig, sSaved>>
          ELSE /\ sConfig' = MapSet(sConfig, endpointKey, PutConfig(body))
               /\ sSaved' = sSaved \cup {endpointKey}
               /\ sLast' = [kind |-> "put", status |-> 200, key |-> endpointKey, body |-> body]
  /\ UNCHANGED <<sPhase, sRoutes, sQueue, sProcessing, sActive, sArrived, genVars, tplVars, heapVars, queueVars, monVars>>

\* a request whose handler is called now; entry is the EndpointConfig that
\* config.endpoints held for its key when the request arrived, and saved
\* says whether a PUT had stored it
Started(request) == [id |-> request.id, key |-> request.key, via |-> request.via,
                     entry |-> request.entry, saved |-> request.saved]

\* a request arrives at the route of a registered endpoint (172-182): the
\* handler is called, or RequestQueue.enqueue (request-queue.ts 31-50),
\* which calls processQueue when no request is being processed
Arrive ==
  /\ sPhase = "running"
  /\ sArrived < MaxRequests
  /\ sArrived' = sArrived + 1
  /\ \E key \in DOMAIN sRoutes :
       LET request == [id |-> sArrived + 1, key |-> key,
                       via |-> IF sRoutes[key].queued THEN "queue" ELSE "direct",
                       entry |-> sConfig[key], saved |-> key \in sSaved]
       IN IF ~sRoutes[key].queued
          THEN /\ sActive' = sActive \cup {Started(request)}
               /\ UNCHANGED <<sQueue, sProcessing, sLast>>
          ELSE IF Len(sQueue) >= QueueMaxSize
            THEN /\ sLast' = [kind |-> "response", request |-> request, status |-> 503,
                              delay |-> 0, body |-> Str("Request queue is full")]
                 /\ UNCHANGED <<sQueue, sProcessing, sActive>>
          ELSE IF ~sProcessing
            THEN /\ sProcessing' = TRUE
                 /\ sActive' = sActive \cup {Started(request)}
                 /\ UNCHANGED <<sQueue, sLast>>
          ELSE /\ sQueue' = Append(sQueue, request)
               /\ UNCHANGED <<sProcessing, sActive, sLast>>
  /\ UNCHANGED <<sPhase, sConfig, sRoutes, sSaved, genVars, tplVars, heapVars, queueVars, monVars>>

\* a handler sends its response (148-170); for a queued request res.end
\* resolves the promise of processQueue, which takes the next request or
\* stops (request-queue.ts 59-83)
Respond ==
  /\ \E request \in sActive :
       /\ \E response \in HandlerResponses(EndpointOf(request.key), sRoutes[request.key].config) :
            sLast' = [kind |-> "response", request |-> request, status |-> response.status,
                      delay |-> response.delay, body |-> response.body]
       /\ IF request.via = "queue"
          THEN IF sQueue # <<>>
               THEN /\ sActive' = (sActive \ {request}) \cup {Started(Head(sQueue))}
                    /\ sQueue' = Tail(sQueue)
                    /\ sProcessing' = sProcessing
               ELSE /\ sActive' = sActive \ {request}
                    /\ sProcessing' = FALSE
                    /\ sQueue' = sQueue
          ELSE /\ sActive' = sActive \ {request}
               /\ UNCHANGED <<sQueue, sProcessing>>
  /\ UNCHANGED <<sPhase, sConfig, sRoutes, sSaved, sArrived, genVars, tplVars, heapVars, queueVars, monVars>>

ListedEndpoint_Whole(key, endpointConfig) ==
  [method |-> SubSeq(key, 1, IndexOf(key, {":"}, 1) - 1),
   path |-> SubSeq(key, IndexOf(key, {":"}, 1) + 1, Len(key)),
   delay |-> Prop(endpointConfig, "delay"), statusCode |-> Prop(endpointConfig, "statusCode")]
\* the element GET /api/endpoints reports for an entry of config.endpoints
\* (part_003 46-53): const [method, path] = key.split(':')
ListedEndpoint(key, endpointConfig) ==
  LET parts == Split(key)
  IN [method |-> parts[1], path |-> IF Len(parts) >= 2 THEN parts[2] ELSE Undefined,
      delay |-> Prop(endpointConfig, "delay"), statusCode |-> Prop(endpointConfig, "statusCode")]

\* GET /api/endpoints (part_003 44-56)
ListEndpoints ==
  /\ sPhase = "running"
  /\ sLast' = [kind |-> "endpoints", status |-> 200,
               list |-> {ListedEndpoint(key, sConfig[key]) : key \in DOMAIN sConfig}]
  /\ UNCHANGED <<sPhase, sConfig, sRoutes, sQueue, sProcessing, sActive, sSaved, sArrived,
                 genVars, tplVars, heapVars, queueVars, monVars>>

NextSrv == RegisterEndpoints \/ PutEndpoint \/ Arrive \/ Respond \/ ListEndpoints
SpecSrv == InitSrv /\ [][NextSrv]_vars

(***************************************************************************)
(* Claims about MockServer.                                                *)
(***************************************************************************)
\* the last thing the server sent is the response of a route handler
HandlerAnswered == "kind" \in DOMAIN sLast /\ sLast.kind = "response"

\* the request that was answered arrived after a PUT had saved settings for
\* its endpoint, and config.endpoints still holds those settings
AnsweredAfterSave ==
  /\ HandlerAnswered
  /\ sLast.request.saved
  /\ sLast.request.entry = sConfig[sLast.request.key]

\* C15: a request that arrives after PUT /api/endpoints/:method/:path saved
\* delay, statusCode and customResponse for its registered endpoint is
\* answered with the saved status code, after the saved delay, with the
\* saved custom response as the template engine processes it
C15_SavedSettingsAnswerLaterRequests ==
  LET saved == sLast.request.entry
  IN (/\ AnsweredAfterSave
      /\ Prop(saved, "delay") # Undefined
      /\ Prop(saved, "statusCode") # Undefined
      /\ Prop(saved, "customResponse") # Undefined)
     => /\ sLast.delay = Prop(saved, "delay").n
        /\ sLast.status = Prop(saved, "statusCode").n
        /\ sLast.body \in Process(Prop(saved, "customResponse"))

\* the requests the server holds: those whose handler runs and those that
\* wait in the queue
HeldRequests == sActive \cup {sQueue[i] : i \in 1..Len(sQueue)}

\* C16: a request that arrives after a PUT saved queueEnabled for its
\* registered endpoint passes through the request queue when the saved
\* value is true and is handled directly when it is false
C16_QueueFollowsSavedSetting ==
  \A request \in HeldRequests :
    (request.saved /\ Prop(request.entry, "queueEnabled") # Undefined)
    => (request.via = "queue") = (Prop(request.entry, "queueEnabled") = Bool(TRUE))

(***************************************************************************)
(* The object store: objects and arrays with identity.  A heap is the      *)
(* sequence of the objects allocated so far; an object holds, for each     *)
(* field, entry or item, a slot: a primitive value or the address of       *)
(* another object.  The statements of mergeSchemas (openapi-parser.ts      *)
(* 340-377) and of process (swagger-client.d.ts 37-52, 592-612) that       *)
(* allocate or assign are replayed on it.                                  *)
(***************************************************************************)
Ref(at) == [k |-> "ref", at |-> at]
IsRef(slot) == slot.k = "ref"

\* a new object: { ... } or [ ... ]
New(heap, object) == [heap |-> Append(heap, object), slot |-> Ref(Len(heap) + 1)]

\* the caller builds the value v: its objects are allocated, children first;
\* the objects of the earlier children are in the heap, which only grows,
\* before those of the next child are allocated
RECURSIVE Store(_, _), StoreFields(_, _, _), StoreEntries(_, _, _), StoreItems(_, _, _)
Store(heap, v) ==
  IF v.k = "object" /\ "f" \in DOMAIN v
    THEN LET fields == StoreFields(heap, v.f, DOMAIN v.f) IN New(fields.heap, Obj(fields.f))
  ELSE IF v.k = "object"
    THEN LET entries == StoreEntries(heap, v.e, Len(v.e)) IN New(entries.heap, TMap(entries.e))
  ELSE IF v.k = "array"
    THEN LET items == StoreItems(heap, v.a, Len(v.a)) IN New(items.heap, Arr(items.a))
  ELSE [heap |-> heap, slot |-> v]
StoreFields(heap, f, keys) ==
  IF keys = {} THEN [heap |-> heap, f |-> <<>>]
  ELSE LET key == CHOOSE x \in keys : TRUE
           rest == StoreFields(heap, f, keys \ {key})
           child == Store(rest.heap, f[key])
       IN IF Len(rest.heap) < Len(heap) THEN rest
          ELSE [heap |-> child.heap, f |-> (key :> child.slot) @@ rest.f]
StoreEntries(heap, e, n) ==
  IF n = 0 THEN [heap |-> heap, e |-> <<>>]
  ELSE LET rest == StoreEntries(heap, e, n - 1)
           child == Store(rest.heap, e[n].val)
       IN IF Len(rest.heap) < Len(heap) THEN rest
          ELSE [heap |-> child.heap, e |-> Append(rest.e, Entry(e[n].key, child.slot))]
StoreItems(heap, a, n) ==
  IF n = 0 THEN [heap |-> heap, a |-> <<>>]
  ELSE LET rest == StoreItems(heap, a, n - 1)
           child == Store(rest.heap, a[n])
       IN IF Len(rest.heap) < Len(heap) THEN rest
          ELSE [heap |-> child.heap, a |-> Append(rest.a, child.slot)]

\* the value a slot stands for
RECURSIVE ValueAt(_, _)
ValueAt(heap, slot) ==
  IF ~IsRef(slot) THEN slot
  ELSE LET object == heap[slot.at] IN
    IF object.k = "object" /\ "f" \in DOMAIN object
      THEN Obj([key \in DOMAIN object.f |-> ValueAt(heap, object.f[key])])
    ELSE IF object.k = "object"
      THEN TMap([i \in 1..Len(object.e) |->
                   Entry(object.e[i].key, ValueAt(heap, object.e[i].val))])
    ELSE Arr([i \in 1..Len(object.a) |-> ValueAt(heap, object.a[i])])

\* the slots an object holds
SlotsOf(object) ==
  IF object.k = "object" /\ "f" \in DOMAIN object THEN {object.f[key] : key \in DOMAIN object.f}
  ELSE IF object.k = "object" THEN {object.e[i].val : i \in 1..Len(object.e)}
  ELSE {object.a[i] : i \in 1..Len(object.a)}

\* the addresses of the objects reachable from a slot
RECURSIVE Reachable(_, _)
Reachable(heap, slot) ==
  IF ~IsRef(slot) THEN {}
  ELSE {slot.at} \cup UNION {Reachable(heap, child) : child \in SlotsOf(heap[slot.at])}

\* ToBoolean of a slot: every object is truthy
TruthySlot(slot) == IsRef(slot) \/ Truthy(slot)
\* schema[key]
PropAt(heap, slot, key) ==
  IF IsRef(slot) /\ heap[slot.at].k = "object" /\ key \in DOMAIN heap[slot.at].f
  THEN heap[slot.at].f[key] ELSE Undefined
\* the own entries that { ...v } copies
EntriesAt(heap, slot) ==
  IF IsRef(slot) /\ heap[slot.at].k = "object" THEN heap[slot.at].f ELSE <<>>
\* the elements that [ ...v ] copies
ItemsAt(heap, slot) ==
  IF IsRef(slot) /\ heap[slot.at].k = "array" THEN heap[slot.at].a ELSE <<>>

\* obj.key = val: the object at the address changes
SetField(heap, slot, key, val) ==
  [heap EXCEPT ![slot.at] = Obj((key :> val) @@ @.f)]

\* { ...schemas[0] } (350): a new object with the same slots
ShallowCopy_Alias(heap, slot) == [heap |-> heap, slot |-> slot]
ShallowCopy(heap, slot) == New(heap, Obj(EntriesAt(heap, slot)))

\* merged.properties = { ...merged.properties, ...currentSchema.properties }
\* (356-358, 367-369); st is the heap with the address of merged
AssignProperties(st, cur) ==
  LET created == New(st.heap, Obj(EntriesAt(st.heap, PropAt(st.heap, cur, "properties"))
                                  @@ EntriesAt(st.heap, PropAt(st.heap, st.slot, "properties"))))
  IN [heap |-> SetField(created.heap, st.slot, "properties", created.slot), slot |-> st.slot]

\* merged.required = [...new Set([...existingRequired, ...currentSchema.required])]
\* (360-363, 370-373)
AssignRequired(st, cur) ==
  LET required == PropAt(st.heap, st.slot, "required")
      existing == IF TruthySlot(required) THEN ItemsAt(st.heap, required) ELSE <<>>
      created == New(st.heap, Arr(Dedup(existing \o ItemsAt(st.heap, PropAt(st.heap, cur, "required")))))
  IN [heap |-> SetField(created.heap, st.slot, "required", created.slot), slot |-> st.slot]

\* one turn of the loop (353-374)
HeapMergeStep(st, cur) ==
  LET curProps == PropAt(st.heap, cur, "properties")
      curReq == PropAt(st.heap, cur, "required")
      m1 == IF TruthySlot(curProps) THEN AssignProperties(st, cur) ELSE st
      m2 == IF TruthySlot(curReq) THEN AssignRequired(m1, cur) ELSE m1
      \* merged = { ...merged, ...currentSchema } (365)
      m3 == New(m2.heap, Obj(EntriesAt(m2.heap, cur) @@ EntriesAt(m2.heap, m2.slot)))
      m4 == IF TruthySlot(PropAt(m3.heap, m3.slot, "properties")) /\ TruthySlot(curProps)
            THEN AssignProperties(m3, cur) ELSE m3
      m5 == IF TruthySlot(curReq) THEN AssignRequired(m4, cur) ELSE m4
  IN m5

RECURSIVE HeapMergeFrom(_, _, _)
HeapMergeFrom(st, schemas, i) ==
  IF i > Len(schemas) THEN st
  ELSE HeapMergeFrom(HeapMergeStep(st, schemas[i]), schemas, i + 1)

\* mergeSchemas(schemas) on the heap: the heap afterwards and the slot returned
HeapMergeSchemas(heap, schemas) ==
  IF Len(schemas) = 0 THEN New(heap, EmptyObj)
  ELSE IF Len(schemas) = 1 THEN [heap |-> heap, slot |-> schemas[1]]
  ELSE HeapMergeFrom(ShallowCopy(heap, schemas[1]), schemas, 2)

\* result[processedKey] = value (599)
AssignEntry(heap, result, key, value) ==
  [heap EXCEPT ![result.at] = Assign(@, key, value)]
\* the callback of arr.map stores the value it returns in the new array
AppendItem(heap, result, value) ==
  [heap EXCEPT ![result.at] = Arr(Append(@.a, value))]

\* process(data) on the heap: the heaps it can leave, each with the slot
\* returned or the exception raised
RECURSIVE HeapProcess(_, _), HeapProcessEntries(_, _, _, _), HeapProcessItems(_, _, _, _)
HeapProcess(heap, data) ==
  IF ~IsRef(data)
    THEN IF data.k = "string" /\ "c" \in DOMAIN data
         THEN {[heap |-> heap, slot |-> text] : text \in ProcessString(data.c)}
         ELSE {[heap |-> heap, slot |-> data]}
  ELSE IF heap[data.at].k = "object"
    THEN LET result == New(heap, TMap(<<>>))
         IN HeapProcessEntries(result.heap, result.slot, heap[data.at].e, Len(heap[data.at].e))
  ELSE LET result == New(heap, Arr(<<>>))
       IN HeapProcessItems(result.heap, result.slot, heap[data.at].a, Len(heap[data.at].a))
HeapProcessEntries(heap, result, entries, n) ==
  IF n = 0 THEN {[heap |-> heap, slot |-> result]}
  ELSE UNION {
    IF IsThrow(st.slot) THEN {st}
    ELSE UNION {
      IF IsThrow(processedKey) THEN {[heap |-> st.heap, slot |-> processedKey]}
      ELSE {IF IsThrow(value.slot) THEN value
            ELSE [heap |-> AssignEntry(value.heap, result, processedKey.c, value.slot),
                  slot |-> result] :
              value \in HeapProcess(st.heap, entries[n].val)} :
        processedKey \in ProcessString(entries[n].key)} :
      st \in HeapProcessEntries(heap, result, entries, n - 1)}
HeapProcessItems(heap, result, items, n) ==
  IF n = 0 THEN {[heap |-> heap, slot |-> result]}
  ELSE UNION {
    IF IsThrow(st.slot) THEN {st}
    ELSE {IF IsThrow(value.slot) THEN value
          ELSE [heap |-> AppendItem(value.heap, result, value.slot), slot |-> result] :
            value \in HeapProcess(st.heap, items[n])} :
      st \in HeapProcessItems(heap, result, items, n - 1)}

\* the members of the allOf lists of the runs on the heap
MergeMembers ==
  {IdObject,
   Obj([properties |-> Obj([n |-> FiveSchema]), required |-> Arr(<<Str("n"), Str("id")>>)]),
   Obj([type |-> Str("object")]),
   Obj([properties |-> Obj([id |-> FiveSchema])])}
MemberLists ==
  {<<a>> : a \in MergeMembers} \cup {<<a, b>> : a, b \in MergeMembers}
  \cup {<<a, b, c>> : a, b, c \in MergeMembers}
HeapSchemas == {Obj([allOf |-> Arr(list)]) : list \in MemberLists} \cup {IdObject, BooleanSchema}

InitHeap ==
  /\ GeneratorIdle
  /\ TemplateIdle
  /\ ServerIdle
  /\ QueueIdle
  /\ MonitorIdle
  /\ hMode \in {"generate", "process"}
  /\ \E input \in IF hMode = "generate" THEN HeapSchemas ELSE TemplateInputs :
       LET stored == Store(<<>>, input)
       IN hHeap = stored.heap /\ hRoot = stored.slot
  /\ hHeap0 = hHeap
  /\ hPhase = "ready"
  /\ hResult = Undefined

\* generateFromSchema(hRoot) without a root document: the allOf branch
\* (246-253) merges on the heap; the value returned is built of new objects
HeapGenerate ==
  /\ hMode = "generate"
  /\ hPhase = "ready"
  /\ LET allOf == PropAt(hHeap, hRoot, "allOf")
         merges == IsRef(allOf) /\ ItemsAt(hHeap, allOf) # <<>>
         merged == IF merges THEN HeapMergeSchemas(hHeap, ItemsAt(hHeap, allOf))
                   ELSE [heap |-> hHeap, slot |-> hRoot]
     IN \E o \in GenerateFromSchema(Undefined, ValueAt(merged.heap, merged.slot), {},
                                    IF merges THEN 2 ELSE 1) :
          LET stored == IF IsThrow(o.val) THEN [heap |-> merged.heap, slot |-> o.val]
                        ELSE Store(merged.heap, o.val)
          IN hHeap' = stored.heap /\ hResult' = stored.slot
  /\ hPhase' = "done"
  /\ UNCHANGED <<hMode, hHeap0, hRoot, genVars, tplVars, srvVars, queueVars, monVars>>

\* process(hRoot)
HeapProcessCall ==
  /\ hMode = "process"
  /\ hPhase = "ready"
  /\ \E st \in HeapProcess(hHeap, hRoot) :
       hHeap' = st.heap /\ hResult' = st.slot
  /\ hPhase' = "done"
  /\ UNCHANGED <<hMode, hHeap0, hRoot, genVars, tplVars, srvVars, queueVars, monVars>>

NextHeap == HeapGenerate \/ HeapProcessCall
SpecHeap == InitHeap /\ [][NextHeap]_vars

\* the calls on the heap return the values that the calls on values return
HeapAgrees ==
  hPhase = "done" =>
    LET result == IF IsThrow(hResult) THEN hResult ELSE ValueAt(hHeap, hResult)
        input == ValueAt(hHeap0, hRoot)
    IN IF hMode = "process" THEN result \in Process(input)
       ELSE result \in ValuesOf(GenerateFromSchema(Undefined, input, {}, 1))

(***************************************************************************)
(* Claims about the inputs of the two entry points, checked under SpecHeap.*)
(***************************************************************************)
\* the objects the caller handed in
InputAddresses == 1..Len(hHeap0)

\* C18: when generateFromSchema has ended, every object of the input (the
\* schema node and all it reaches, also the members that mergeSchemas
\* merged) is as it was; when process has returned, every object of the
\* input is as it was and no object reachable from the result is an object
\* of the input
C18_InputsNotMutated ==
  hPhase = "done" =>
    /\ \A at \in InputAddresses : hHeap[at] = hHeap0[at]
    /\ (hMode = "process" /\ ~IsThrow(hResult))
         => Reachable(hHeap, hResult) \cap InputAddresses = {}
C18_Witness ==
  /\ hMode = "generate"
  /\ hPhase = "done"
  /\ Len(ItemsAt(hHeap0, PropAt(hHeap0, hRoot, "allOf"))) = 3
  /\ IsRef(hResult)
  /\ PropAt(hHeap0, ItemsAt(hHeap0, PropAt(hHeap0, hRoot, "allOf"))[1], "required") # Undefined
  /\ ValueAt(hHeap, hResult) = Obj([id |-> Num(5)])
C18_ProcessedTree ==
  /\ hMode = "process"
  /\ hPhase = "done"
  /\ ValueAt(hHeap0, hRoot) = Arr(<<ExampleMapping, Num(1)>>)
  /\ IsRef(hResult)
  /\ Cardinality(Reachable(hHeap, hResult)) = 3

(***************************************************************************)
(* Claims about the scan of processString, checked under SpecTpl.          *)
(***************************************************************************)
\* the run processed a string
StringProcessed == ProcessDone /\ tInput.k = "string"

\* C19: substitution is a single pass.  The text that {{random:text}}
\* returns is copied to the output and not scanned, also when it forms a
\* placeholder with the characters after it; the text before and after the
\* match is copied unchanged, and what replaces the match is what the
\* generator returned
C19_SinglePass ==
  StringProcessed =>
    \A before \in TextsBefore, after \in TextsAfter :
      /\ \A text \in GivenTexts :
           tInput.c = Around(before, <<"random", ":">> \o text, after)
             => tResult = TStr(before \o text \o after)
      /\ \A content \in FixedTemplates :
           tInput.c = Around(before, content, after)
             => \E generated \in ProcessTemplate(content) :
                  tResult = TStr(before \o generated.c \o after)
C19_Witness ==
  /\ StringProcessed
  /\ tInput = TStr(Around(<<"a">>, <<"random", ":", "{", "{", "uuid">>, <<"}", "}">>))
  /\ tResult = TStr(<<"a">> \o Placeholder(<<"uuid">>))

(***************************************************************************)
(* Further claims about the allOf merge, checked under SpecGen.            *)
(***************************************************************************)
\* the keywords of a member
KeywordsOf(member) == IF member.k = "object" THEN DOMAIN member.f ELSE {}
\* the last member of the list that sets the keyword, 0 for none
RECURSIVE LastSetting(_, _, _)
LastSetting(members, keyword, i) ==
  IF i = 0 THEN 0
  ELSE IF keyword \in KeywordsOf(members[i]) THEN i
  ELSE LastSetting(members, keyword, i - 1)

\* the run generated from a node whose only keyword is a non-empty allOf
AllOfRun ==
  /\ GenerateDone
  /\ gSchema.k = "object"
  /\ DOMAIN gSchema.f = {"allOf"}
  /\ Listed(gSchema, "allOf")

\* C21: in the schema that mergeSchemas returns, every keyword other than
\* properties and required has the value of the last member that sets it,
\* and holds no keyword that no member sets; an allOf with one member
\* generates the values that member generates
C21_LastMemberWins ==
  AllOfRun =>
    LET members == Prop(gSchema, "allOf").a
        merged == MergeSchemas(AllOfMembers)
    IN /\ \A keyword \in KeywordsOf(merged) \ {"properties", "required"} :
            /\ LastSetting(members, keyword, Len(members)) > 0
            /\ merged.f[keyword] = members[LastSetting(members, keyword, Len(members))].f[keyword]
       /\ \A i \in 1..Len(members) :
            KeywordsOf(members[i]) \ {"properties", "required"} \subseteq KeywordsOf(merged)
       /\ RunValues = ValuesOf(GenerateFromSchema(gSpec, merged, gVisited0, 2))
       /\ Len(members) = 1 =>
            RunValues = ValuesOf(GenerateFromSchema(gSpec, members[1], gVisited0, 2))
C21_Witness ==
  /\ AllOfRun
  /\ Prop(gSchema, "allOf").a
       = <<FiveSchema, Obj([maximum |-> Num(9)]), Obj([minimum |-> Num(7), maximum |-> Num(7)])>>
  /\ gResult = Num(7)
C21_SingleMember ==
  /\ AllOfRun
  /\ Prop(gSchema, "allOf").a = <<FiveSchema>>
  /\ gResult = Num(5)

(***************************************************************************)
(* Further claims about generateNumber, checked under SpecGen.             *)
(***************************************************************************)
\* integer schemas with a positive multipleOf whose range, with the defaults
\* 0 and 1000 for an absent bound, is not empty
MultipleOfSchema(schema) ==
  /\ schema \in NumberSchemas
  /\ Prop(schema, "type") = Str("integer")
  /\ Prop(schema, "multipleOf") # Undefined
  /\ Prop(schema, "multipleOf").n > 0
  /\ Nullish(Prop(schema, "minimum"), Num(0)).n <= Nullish(Prop(schema, "maximum"), Num(1000)).n
MultipleOfRun == GenerateDone /\ MultipleOfSchema(gSchema)

\* C22: for an integer schema with multipleOf m > 0 and minimum <= maximum
\* the generated value is a multiple of m, the greatest one not above a
\* value of [minimum, maximum], and lies in [minimum, maximum] itself
C22_MultipleWithinRange ==
  MultipleOfRun =>
    LET m == Prop(gSchema, "multipleOf").n
        minimum == Nullish(Prop(gSchema, "minimum"), Num(0)).n
        maximum == Nullish(Prop(gSchema, "maximum"), Num(1000)).n
    IN /\ gResult.k = "number"
       /\ gResult.n % m = 0
       /\ \E drawn \in minimum..maximum : gResult.n <= drawn /\ drawn < gResult.n + m
       /\ gResult.n >= minimum
       /\ gResult.n <= maximum

\* C22, the part about the snap alone: the generated value is the greatest
\* multiple of m that is not above some value of [minimum, maximum]
C22_GreatestMultipleBelowDrawn ==
  MultipleOfRun =>
    LET m == Prop(gSchema, "multipleOf").n
        minimum == Nullish(Prop(gSchema, "minimum"), Num(0)).n
        maximum == Nullish(Prop(gSchema, "maximum"), Num(1000)).n
    IN /\ gResult.k = "number"
       /\ gResult.n % m = 0
       /\ \E drawn \in minimum..maximum : gResult.n <= drawn /\ drawn < gResult.n + m
C22_Witness ==
  /\ MultipleOfRun
  /\ Prop(gSchema, "minimum") = Num(0 - 7)
  /\ Prop(gSchema, "maximum") = Num(5)
  /\ gResult = Num(0 - 9)

(***************************************************************************)
(* Further claims about the numeric arguments of templates, checked under  *)
(* SpecTpl.                                                                *)
(***************************************************************************)
\* argument i as the claims read it: parsed as an integer and brought into
\* lo..hi, default when it is missing or no number
BoundedArg(args, i, lo, hi, default) ==
  IF i > Len(args) \/ args[i] = <<>> \/ ParseInt(args[i]) = NaN THEN default
  ELSE IF ParseInt(args[i]).n < lo THEN lo
  ELSE IF ParseInt(args[i]).n > hi THEN hi
  ELSE ParseInt(args[i]).n

\* C23: {{string:n}}, {{alpha:n}} and {{numeric:n}} give a string whose
\* length is n brought into [1, 10000], 10 when n is missing or no number;
\* {{age:a:b}} gives the decimal text of an integer between a and b, each
\* brought into [0, 120], with the defaults 18 and 65
C23_ArgumentsClamped ==
  ProcessDone =>
    /\ \A name \in LengthNames, args \in ArgLists \cup LongArgLists :
         tInput = TStr(Placeholder(Join(<<name>> \o args))) =>
           /\ tResult.k = "string"
           /\ Len(tResult.c) = BoundedArg(args, 1, 1, 10000, 10)
    /\ \A args \in ArgLists :
         tInput = TStr(Placeholder(Join(<<<<"age">>>> \o args))) =>
           LET a == BoundedArg(args, 1, 0, 120, 18)
               b == BoundedArg(args, 2, 0, 120, 65)
           IN /\ tResult.k = "string"
              /\ DecimalBetween(tResult.c, IF a < b THEN a ELSE b, IF a < b THEN b ELSE a)
              /\ DecimalBetween(tResult.c, 0, 120)
C23_Witness ==
  /\ ProcessDone
  /\ tInput = TStr(Placeholder(<<"string", ":", "2", "0", "0", "0", "0", ":", "5">>))
  /\ Len(tResult.c) = 10000
C23_AgeClamped ==
  /\ ProcessDone
  /\ tInput = TStr(Placeholder(<<"age", ":", "2", "0", "0", "0", ":", "-", "3">>))
  /\ tResult = TStr(<<"1", "2", "0">>)

(***************************************************************************)
(* RequestQueue as a state machine: enqueue, the end of a response, which  *)
(* resumes processQueue, and clear.  Requests are numbered in the order in *)
(* which they are handed to enqueue.                                       *)
(***************************************************************************)
MaxEnqueued == 13

RangeOf(seq) == {seq[i] : i \in 1..Len(seq)}
\* the started requests whose response has not ended
InFlight == RangeOf(qStarted) \ qEnded
\* the requests enqueue pushed onto the queue
Accepted == (1..qArrived) \ qRefused

QueueFull_Over(queue) == Len(queue) > QueueMaxSize
\* enqueue: if (this.queue.length >= this.maxSize)
QueueFull(queue) == Len(queue) >= QueueMaxSize

Shift_Last(queue) ==
  [item |-> queue[Len(queue)], rest |-> SubSeq(queue, 1, Len(queue) - 1)]
\* const item = this.queue.shift()
Shift(queue) == [item |-> Head(queue), rest |-> Tail(queue)]

ProcessQueue_StayBusy(queue, started) ==
  IF Len(queue) > 0
  THEN [queue |-> Shift(queue).rest, started |-> Append(started, Shift(queue).item),
        processing |-> TRUE]
  ELSE [queue |-> queue, started |-> started, processing |-> TRUE]
\* processQueue from the head of its loop to the next await: the next waiting
\* request is taken and its handler invoked, or the loop ends and the flag is reset
ProcessQueue(queue, started) ==
  IF Len(queue) > 0
  THEN [queue |-> Shift(queue).rest, started |-> Append(started, Shift(queue).item),
        processing |-> TRUE]
  ELSE [queue |-> queue, started |-> started, processing |-> FALSE]

InitQueue ==
  /\ GeneratorIdle
  /\ TemplateIdle
  /\ ServerIdle
  /\ HeapIdle
  /\ MonitorIdle
  /\ qQueue = <<>>
  /\ qProcessing = FALSE
  /\ qArrived = 0
  /\ qStarted = <<>>
  /\ qEnded = {}
  /\ qRefused = {}
  /\ qCleared = {}

\* enqueue(req, res, next, handler)
Enqueue ==
  /\ qArrived < MaxEnqueued
  /\ qArrived' = qArrived + 1
  /\ IF QueueFull(qQueue)
     THEN /\ qRefused' = qRefused \cup {qArrived'}
          /\ UNCHANGED <<qQueue, qProcessing, qStarted>>
     ELSE /\ qRefused' = qRefused
          /\ IF ~qProcessing
             THEN LET run == ProcessQueue(Append(qQueue, qArrived'), qStarted)
                  IN  /\ qQueue' = run.queue
                      /\ qStarted' = run.started
                      /\ qProcessing' = run.processing
             ELSE /\ qQueue' = Append(qQueue, qArrived')
                  /\ UNCHANGED <<qProcessing, qStarted>>
  /\ UNCHANGED <<qEnded, qCleared, genVars, tplVars, srvVars, heapVars, monVars>>

\* the handler of a started request ends its response: the wrapped res.end resolves
\* the promise processQueue awaits, and the loop goes on
EndResponse ==
  /\ \E id \in InFlight :
       LET run == ProcessQueue(qQueue, qStarted)
       IN  /\ qEnded' = qEnded \cup {id}
           /\ qQueue' = run.queue
           /\ qStarted' = run.started
           /\ qProcessing' = run.processing
  /\ UNCHANGED <<qArrived, qRefused, qCleared, genVars, tplVars, srvVars, heapVars, monVars>>

\* clear()
Clear ==
  /\ qCleared' = qCleared \cup RangeOf(qQueue)
  /\ qQueue' = <<>>
  /\ UNCHANGED <<qProcessing, qArrived, qStarted, qEnded, qRefused,
                 genVars, tplVars, srvVars, heapVars, monVars>>

NextQueue == Enqueue \/ EndResponse \/ Clear
SpecQueue == InitQueue /\ [][NextQueue]_vars
\* every handler the server registers ends its response
SpecQueueFair == SpecQueue /\ WF_vars(EndResponse)

\* C24: the handlers are invoked in the order in which enqueue accepted their
\* requests, a handler is invoked only after the response of every request started
\* before it has ended, so at most one is in flight, and everything still waiting
\* was accepted after everything started.
C24_SequentialFifo ==
  /\ \A i \in 1..Len(qStarted) : \A j \in 1..Len(qStarted) : i < j => qStarted[i] < qStarted[j]
  /\ \A i \in 1..Len(qStarted) : i < Len(qStarted) => qStarted[i] \in qEnded
  /\ Cardinality(RangeOf(qStarted) \ qEnded) <= 1
  /\ \A i \in 1..Len(qQueue) : \A j \in 1..Len(qQueue) : i < j => qQueue[i] < qQueue[j]
  /\ \A i \in 1..Len(qQueue) : \A j \in 1..Len(qStarted) : qStarted[j] < qQueue[i]
C24_Witness ==
  /\ Len(qStarted) >= 3
  /\ Len(qQueue) >= 2
  /\ Cardinality(RangeOf(qStarted) \ qEnded) = 1
  /\ qCleared = {}

\* C25: never more than maxSize requests wait; an enqueue that arrives while maxSize
\* requests wait is answered 503 'Request queue is full', its handler is never
\* invoked, and the queue and the processing flag stay as they were; no other
\* enqueue is answered that way.
RefusedNeverHandled ==
  /\ Len(qQueue) <= QueueMaxSize
  /\ qRefused \cap (RangeOf(qStarted) \cup RangeOf(qQueue) \cup qCleared) = {}
RefusedWhenFull ==
  qArrived' # qArrived =>
    IF Len(qQueue) = QueueMaxSize
    THEN /\ qRefused' = qRefused \cup {qArrived'}
         /\ UNCHANGED <<qQueue, qProcessing, qStarted, qEnded, qCleared>>
    ELSE qRefused' = qRefused
C25_BoundedQueue == [][RefusedWhenFull]_vars /\ []RefusedNeverHandled
C25_Witness ==
  /\ Len(qQueue) = QueueMaxSize
  /\ qRefused # {}
  /\ qProcessing

\* C26: provided every started handler ends its response, every request enqueue
\* accepted is eventually started or answered 503 by clear(), and never both;
\* while requests wait the processing flag is set; the flag is set exactly while a
\* started response has not ended, so an enqueue that finds the queue drained and
\* the last response ended starts its request at once.
Waiting(id) == id \in Accepted /\ id \notin RangeOf(qStarted) /\ id \notin qCleared
Served(id) == id \in RangeOf(qStarted) \/ id \in qCleared
FlagFollowsWork ==
  /\ qQueue # <<>> => qProcessing
  /\ qProcessing <=> RangeOf(qStarted) \ qEnded # {}
  /\ RangeOf(qStarted) \cap qCleared = {}
  /\ \A id \in Accepted : Waiting(id) <=> id \in RangeOf(qQueue)
RestartsWhenDrained ==
  (qArrived' # qArrived /\ ~qProcessing) =>
    /\ qStarted' = Append(qStarted, qArrived')
    /\ qProcessing'
C26_EveryAcceptedServed ==
  /\ []FlagFollowsWork
  /\ [][RestartsWhenDrained]_vars
  /\ \A id \in 1..MaxEnqueued : (id \in Accepted) ~> Served(id)
\* the queue drained, the flag fell, and a later request was started
C26_Witness ==
  /\ Len(qStarted) >= 3
  /\ qStarted[1] \in qEnded
  /\ qCleared # {}
  /\ \E i \in 2..Len(qStarted) : qStarted[i] > qStarted[i - 1] + 1 /\ qStarted[i] - 1 \in qCleared
  /\ qProcessing
  /\ qQueue = <<>>

(***************************************************************************)
(* RequestMonitor and the Monitor page as a state machine.  Every request  *)
(* the server answers is logged by the 'finish' middleware, the requests   *)
(* to /api/history and /api/history/clear included.  Requests are numbered *)
(* in the order in which they are logged.                                  *)
(***************************************************************************)
MaxHistorySize == 1000
PageMaxLogs == 1000
MaxMonitorRequests == 3
ClientIds == {1, 2}
\* how many requests the server has logged before the run is observed
PriorRequests == {0, MaxHistorySize - 2}

\* the RequestLog of request n; its timestamp is a Date
LogOf(n) == [id |-> n, timestamp |-> [date |-> n]]
\* JSON.stringify followed by JSON.parse: a Date arrives as its ISO string
Serialized(log) == [id |-> log.id, timestamp |-> [iso |-> log.timestamp.date]]
SerializedList(logs) == [i \in 1..Len(logs) |-> Serialized(logs[i])]
\* a message as the page parses it
Wire(message) ==
  IF message.type = "request" THEN [type |-> "request", data |-> Serialized(message.data)]
  ELSE IF message.type = "history" THEN [type |-> "history", data |-> SerializedList(message.data)]
  ELSE message
FirstOf(seq, n) == SubSeq(seq, 1, IF Len(seq) < n THEN Len(seq) ELSE n)

\* addToHistory(log), with the array getHistory returned last: unshift changes the
\* history array in place, slice makes a new one
AddToHistory(history, returned, log) ==
  LET unshifted == <<log>> \o history
      seen == IF returned # NoArray /\ returned.same
              THEN [returned EXCEPT !.items = unshifted] ELSE returned
  IN  IF Len(unshifted) > MaxHistorySize
      THEN [history |-> SubSeq(unshifted, 1, MaxHistorySize),
            returned |-> IF seen = NoArray THEN seen ELSE [seen EXCEPT !.same = FALSE]]
      ELSE [history |-> unshifted, returned |-> seen]

GetHistory_Same(history, call) == [same |-> TRUE, items |-> history, call |-> call]
\* getHistory(): [...this.history]
GetHistory(history, call) == [same |-> FALSE, items |-> history, call |-> call]

\* broadcast(message): every open connection is sent the message
Broadcast(inbox, clients, message) ==
  [c \in DOMAIN inbox |-> IF c \in clients THEN Append(inbox[c], Wire(message)) ELSE inbox[c]]

OnMessage_Append(logs, message) ==
  IF message.type = "request" THEN FirstOf(logs \o <<message.data>>, PageMaxLogs)
  ELSE IF message.type = "history" THEN message.data
  ELSE logs
\* ws.onmessage of the Monitor page
OnMessage(logs, message) ==
  IF message.type = "request" THEN FirstOf(<<message.data>> \o logs, PageMaxLogs)
  ELSE IF message.type = "history" THEN message.data
  ELSE logs

InitMon ==
  /\ GeneratorIdle
  /\ TemplateIdle
  /\ ServerIdle
  /\ HeapIdle
  /\ QueueIdle
  /\ mServed = 0
  /\ \E prior \in PriorRequests :
       /\ mHistory = [i \in 1..prior |-> LogOf(prior + 1 - i)]
       /\ mLogged = [i \in 1..prior |-> LogOf(i)]
       /\ mNextId = prior + 1
  /\ mReturned = NoArray
  /\ mClients = {}
  /\ cInbox = <<>>
  /\ cLogs = <<>>

\* logRequest, called when the response of request mNextId has been sent
LogRequest(history, returned) ==
  LET added == AddToHistory(history, returned, LogOf(mNextId))
  IN  /\ mHistory' = added.history
      /\ mReturned' = added.returned
      /\ mNextId' = mNextId + 1
      /\ mServed' = mServed + 1

\* a request to a mock endpoint is answered
MockRequest ==
  /\ mServed < MaxMonitorRequests
  /\ LogRequest(mHistory, mReturned)
  /\ mLogged' = Append(mLogged, LogOf(mNextId))
  /\ cInbox' = Broadcast(cInbox, mClients, [type |-> "request", data |-> LogOf(mNextId)])
  /\ UNCHANGED <<mClients, cLogs, genVars, tplVars, srvVars, heapVars, queueVars>>

\* GET /api/history
HistoryRequest ==
  /\ mServed < MaxMonitorRequests
  /\ LogRequest(mHistory, GetHistory(mHistory, mNextId))
  /\ mLogged' = Append(mLogged, LogOf(mNextId))
  /\ cInbox' = Broadcast(cInbox, mClients, [type |-> "request", data |-> LogOf(mNextId)])
  /\ UNCHANGED <<mClients, cLogs, genVars, tplVars, srvVars, heapVars, queueVars>>

\* POST /api/history/clear: clearHistory(), then the request itself is logged
ClearRequest ==
  /\ mServed < MaxMonitorRequests
  /\ LogRequest(<<>>, IF mReturned = NoArray THEN mReturned ELSE [mReturned EXCEPT !.same = FALSE])
  /\ mLogged' = <<LogOf(mNextId)>>
  /\ cInbox' = Broadcast(Broadcast(cInbox, mClients, [type |-> "history-cleared"]),
                         mClients, [type |-> "request", data |-> LogOf(mNextId)])
  /\ UNCHANGED <<mClients, cLogs, genVars, tplVars, srvVars, heapVars, queueVars>>

\* a page opens its WebSocket: addClient(ws)
AddClient ==
  /\ \E c \in ClientIds \ DOMAIN cInbox :
       /\ mClients' = mClients \cup {c}
       /\ cInbox' = (c :> <<Wire([type |-> "history", data |-> mHistory])>>) @@ cInbox
       /\ cLogs' = (c :> <<>>) @@ cLogs
  /\ UNCHANGED <<mServed, mHistory, mLogged, mNextId, mReturned,
                 genVars, tplVars, srvVars, heapVars, queueVars>>

\* the connection closes: the 'close' handler of addClient
CloseClient ==
  /\ \E c \in mClients : mClients' = mClients \ {c}
  /\ UNCHANGED <<mServed, mHistory, mLogged, mNextId, mReturned, cInbox, cLogs,
                 genVars, tplVars, srvVars, heapVars, queueVars>>

\* the page processes the next message of its connection
Receive ==
  /\ \E c \in DOMAIN cInbox :
       /\ cInbox[c] # <<>>
       /\ cLogs' = [cLogs EXCEPT ![c] = OnMessage(cLogs[c], Head(cInbox[c]))]
       /\ cInbox' = [cInbox EXCEPT ![c] = Tail(cInbox[c])]
  /\ UNCHANGED <<mServed, mHistory, mLogged, mNextId, mReturned, mClients,
                 genVars, tplVars, srvVars, heapVars, queueVars>>

NextMon == MockRequest \/ HistoryRequest \/ ClearRequest \/ AddClient \/ CloseClient \/ Receive
SpecMon == InitMon /\ [][NextMon]_vars

\* C27: the history holds at most 1000 entries, newest first, and they are the
\* up-to-1000 most recent requests logged since the last clearHistory; the array
\* getHistory returns holds the history of the moment of the call and does not
\* change when the history changes afterwards.
MostRecentLogged ==
  /\ Len(mHistory) <= 1000
  /\ Len(mHistory) = IF Len(mLogged) < 1000 THEN Len(mLogged) ELSE 1000
  /\ \A i \in 1..Len(mHistory) : mHistory[i] = mLogged[Len(mLogged) + 1 - i]
ReturnedIsCopy ==
  mReturned' # NoArray =>
    IF mReturned = NoArray \/ mReturned'.call # mReturned.call
    THEN mReturned'.items = mHistory
    ELSE mReturned'.items = mReturned.items
C27_HistoryBounded == []MostRecentLogged /\ [][ReturnedIsCopy]_vars
C27_Witness ==
  /\ Len(mLogged) > 1000
  /\ Len(mHistory) = 1000
  /\ mReturned # NoArray
  /\ mReturned.items # mHistory

\* the connections that are open and whose page has processed every message
UpToDate == {c \in mClients : cInbox[c] = <<>>}
\* clearHistory has never been called
NeverCleared == Len(mLogged) = mNextId - 1

\* C28: a page that connected at any point and has processed every message holds a
\* log list equal to the server's history.
C28_PageEqualsHistory == \A c \in UpToDate : cLogs[c] = SerializedList(mHistory)

\* C28, as far as the page goes: the server's history is the head of the list of
\* an up-to-date page, and the two are equal as long as the history was never cleared.
C28_HistoryHeadsPage ==
  \A c \in UpToDate :
    /\ Len(mHistory) <= Len(cLogs[c])
    /\ SerializedList(mHistory) = SubSeq(cLogs[c], 1, Len(mHistory))
    /\ NeverCleared => cLogs[c] = SerializedList(mHistory)
C28_Witness ==
  \E c \in UpToDate :
    /\ Len(mLogged) > 1000
    /\ Len(cLogs[c]) = 1000
    /\ cLogs[c][1].id = mNextId - 1
    /\ UpToDate # mClients

\* the answer of GET /api/endpoints is the response sent last
EndpointsListed == "kind" \in DOMAIN sLast /\ sLast.kind = "endpoints"

\* C29: GET /api/endpoints reports every registered endpoint with its method and
\* its full path: joining a reported method and path with ':' gives back the
\* stored key, for every key.
C29_KeyRecovered ==
  EndpointsListed =>
    \A key \in DOMAIN sConfig :
      \E listed \in sLast.list :
        /\ listed.path # Undefined
        /\ listed.method \o <<":">> \o listed.path = key

\* C29, as far as the split goes: the method is always recovered, the reported path
\* is the stored path up to its first ':', and the pair is recovered exactly for
\* the paths without a parameter.
C29_PathUpToColon ==
  EndpointsListed =>
    \A key \in DOMAIN sConfig :
      \E listed \in sLast.list :
        LET path == SubSeq(key, 3, Len(key))
            colon == IndexOf(path, {":"}, 1)
        IN /\ listed.method = <<key[1]>>
           /\ listed.path = IF colon = 0 THEN path ELSE SubSeq(path, 1, colon - 1)
           /\ colon = 0 => listed.method \o <<":">> \o listed.path = key
C29_Witness ==
  /\ EndpointsListed
  /\ UsersKey \in DOMAIN sConfig
  /\ UserKey \in DOMAIN sConfig
  /\ \E listed \in sLast.list : listed.method = <<"GET">> /\ listed.path = UsersPath
  /\ \E listed \in sLast.list : listed.method = <<"POST">> /\ listed.path = <<"/", "users", "/">>

\* a PUT /api/endpoints/:method/:path was accepted and stored a configuration
PutStored == sPhase = "running" /\ "kind" \in DOMAIN sLast' /\ sLast'.kind = "put"
             /\ sLast'.status = 200 /\ (sLast' # sLast \/ sConfig' # sConfig)
PutRefused == "kind" \in DOMAIN sLast' /\ sLast'.kind = "put" /\ sLast'.status = 400
SettingNames == {"delay", "statusCode", "customResponse", "queueEnabled", "queueSize"}
FieldsOf(config, key) == IF key \in DOMAIN config THEN DOMAIN Entries(config[key]) ELSE {}

\* C30: a PUT whose body sets only some fields leaves every other stored field of
\* that endpoint's configuration (path, method, settings saved before) as it was,
\* and a PUT answered 400 leaves the whole stored configuration as it was.
PutKeepsOtherFields ==
  /\ PutStored =>
       \A field \in FieldsOf(sConfig, sLast'.key) :
         Prop(sLast'.body, field) = Undefined =>
           Prop(sConfig'[sLast'.key], field) = Prop(sConfig[sLast'.key], field)
  /\ PutRefused => sConfig' = sConfig
C30_PutFrame == [][PutKeepsOtherFields]_vars

\* C30, as far as the handler goes: a PUT answered 400 leaves the whole stored
\* configuration as it was; an accepted PUT leaves the entries of the other
\* endpoints as they were and stores, for its own endpoint, exactly the fields of
\* its body.
PutReplacesEntry ==
  /\ PutStored =>
       /\ \A key \in DOMAIN sConfig : key # sLast'.key => sConfig'[key] = sConfig[key]
       /\ DOMAIN sConfig' = DOMAIN sConfig \cup {sLast'.key}
       /\ FieldsOf(sConfig', sLast'.key) \subseteq SettingNames
       /\ \A field \in SettingNames :
            Prop(sConfig'[sLast'.key], field) = Prop(sLast'.body, field)
  /\ PutRefused => sConfig' = sConfig
C30_PutReplacesEntry == [][PutReplacesEntry]_vars
C30_Witness ==
  /\ "kind" \in DOMAIN sLast /\ sLast.kind = "put" /\ sLast.status = 400
  /\ UsersKey \in sSaved
  /\ Prop(sConfig[UsersKey], "path") = Undefined
  /\ Prop(sConfig[UsersKey], "delay") # Undefined

====
